---- MODULE Spec2Model ----
(***************************************************************************)
(* Model of the service-monitoring plugin: the orchestrator check_service, *)
(* the three probes (Elasticsearch, Kibana, Logstash), the HTTP driver and *)
(* the Nagios reporter.                                                     *)
(*                                                                         *)
(* Strings the program transforms (upper-casing, integer parsing) are      *)
(* sequences of characters (a letter outside ASCII is named by its code    *)
(* point); fixed messages that are only passed along are plain strings.    *)
(* JSON values are records                                                 *)
(*   [t |-> type tag, s |-> string payload, n |-> numeric payload,         *)
(*    kids |-> set of <<key, value>> pairs of an object].                  *)
(* A float is kept in tenths (n = 699 is 69.9); NaN and the infinities     *)
(* have their own tags.                                                     *)
(***************************************************************************)
EXTENDS Integers, Sequences, FiniteSets, TLC

\* ------------------------------------------------------------------------
\* Bounds

\* number of invocations of the plugin a behaviour may contain
MaxRuns == 3

\* ------------------------------------------------------------------------
\* Strings as character sequences

LowerAlphabet ==
  <<"a","b","c","d","e","f","g","h","i","j","k","l","m",
    "n","o","p","q","r","s","t","u","v","w","x","y","z">>

UpperAlphabet ==
  <<"A","B","C","D","E","F","G","H","I","J","K","L","M",
    "N","O","P","Q","R","S","T","U","V","W","X","Y","Z">>

Digits == <<"0","1","2","3","4","5","6","7","8","9">>

\* A character outside printable ASCII is written by its code point: "U+0131"
\* is the one character LATIN SMALL LETTER DOTLESS I.  The alphabet of the
\* model is ASCII together with the code points named in this section.

\* the characters outside ASCII whose str.upper() is not the character itself,
\* with their upper case (a string: one character may become several)
SpecialUpper ==
  { << "U+00DF", <<"S","S">> >>,      \* sharp s
    << "U+0131", <<"I">> >>,          \* dotless i
    << "U+017F", <<"S">> >>,          \* long s
    << "U+00E9", <<"U+00C9">> >>,     \* e with acute
    << "U+FB01", <<"F","I">> >> }     \* ligature fi

\* the characters outside ASCII whose str.lower() is not the character itself
SpecialLower ==
  { << "U+212A", <<"k">> >>,          \* Kelvin sign
    << "U+0130", <<"i","U+0307">> >>, \* I with dot above
    << "U+00C9", <<"U+00E9">> >> }    \* E with acute

\* str.upper() of a one-character string
UpperChar(c) ==
  IF \E i \in 1..26 : LowerAlphabet[i] = c
  THEN << UpperAlphabet[CHOOSE i \in 1..26 : LowerAlphabet[i] = c] >>
  ELSE IF \E p \in SpecialUpper : p[1] = c
  THEN (CHOOSE p \in SpecialUpper : p[1] = c)[2]
  ELSE <<c>>

\* str.upper()
RECURSIVE StrUpper(_)
StrUpper(str) ==
  IF Len(str) = 0 THEN <<>> ELSE UpperChar(Head(str)) \o StrUpper(Tail(str))

\* str.lower() of a one-character string
LowerChar(c) ==
  IF \E i \in 1..26 : UpperAlphabet[i] = c
  THEN << LowerAlphabet[CHOOSE i \in 1..26 : UpperAlphabet[i] = c] >>
  ELSE IF \E p \in SpecialLower : p[1] = c
  THEN (CHOOSE p \in SpecialLower : p[1] = c)[2]
  ELSE <<c>>

\* str.lower()
RECURSIVE StrLower(_)
StrLower(str) ==
  IF Len(str) = 0 THEN <<>> ELSE LowerChar(Head(str)) \o StrLower(Tail(str))

\* str starts with the characters of prefix
StartsWith(str, prefix) ==
  Len(str) >= Len(prefix) /\ SubSeq(str, 1, Len(prefix)) = prefix

\* str.replace(old, ""): every occurrence of old removed, left to right
RECURSIVE StrRemove(_, _)
StrRemove(str, old) ==
  IF Len(str) = 0 THEN <<>>
  ELSE IF StartsWith(str, old)
  THEN StrRemove(SubSeq(str, Len(old) + 1, Len(str)), old)
  ELSE <<Head(str)>> \o StrRemove(Tail(str), old)

\* str(n) of a natural number
RECURSIVE NatToStr(_)
NatToStr(n) ==
  IF n < 10 THEN <<Digits[n + 1]>>
  ELSE NatToStr(n \div 10) \o <<Digits[(n % 10) + 1]>>

\* str(n) of an integer, as an f-string formats it
IntToStr(n) == IF n < 0 THEN <<"-">> \o NatToStr(0 - n) ELSE NatToStr(n)

\* decimal digits outside ASCII, which int() reads by their digit value
OtherDecimals ==
  { << "U+0663", 3 >>,                \* Arabic-Indic digit three
    << "U+FF17", 7 >> }               \* fullwidth digit seven

\* a character int() reads as a decimal digit
IsDigit(c) ==
  \/ \E i \in 1..10 : Digits[i] = c
  \/ \E p \in OtherDecimals : p[1] = c

DigitVal(c) ==
  IF \E i \in 1..10 : Digits[i] = c
  THEN (CHOOSE i \in 1..10 : Digits[i] = c) - 1
  ELSE (CHOOSE p \in OtherDecimals : p[1] = c)[2]

\* the white space int() drops around the number: the six ASCII characters
\* blank, \t, \n, \v ("U+000B"), \f, \r and the white space outside ASCII
\* (next line, no-break space, em space, ideographic space); the ASCII
\* separators \x1c..\x1f ("U+001C") are no white space for int()
IntSpace ==
  {" ", "\t", "\n", "U+000B", "\f", "\r",
   "U+0085", "U+00A0", "U+2003", "U+3000"}

\* the leading white space removed, as int() does
RECURSIVE StripLeft(_)
StripLeft(str) ==
  IF Len(str) > 0 /\ str[1] \in IntSpace THEN StripLeft(Tail(str)) ELSE str

\* the trailing white space removed, as int() does
RECURSIVE StripRight(_)
StripRight(str) ==
  IF Len(str) > 0 /\ str[Len(str)] \in IntSpace
  THEN StripRight(SubSeq(str, 1, Len(str) - 1)) ELSE str

Strip(str) == StripRight(StripLeft(str))

\* the digit part of an int() literal: digits, single underscores between them
RECURSIVE DigitsOk(_, _)
DigitsOk(str, prevWasDigit) ==
  IF Len(str) = 0 THEN prevWasDigit
  ELSE IF IsDigit(str[1]) THEN DigitsOk(Tail(str), TRUE)
  ELSE IF str[1] = "_" THEN prevWasDigit /\ DigitsOk(Tail(str), FALSE)
  ELSE FALSE

RECURSIVE DigitsValue(_, _)
DigitsValue(str, acc) ==
  IF Len(str) = 0 THEN acc
  ELSE IF str[1] = "_" THEN DigitsValue(Tail(str), acc)
  ELSE DigitsValue(Tail(str), acc * 10 + DigitVal(str[1]))

\* the string without its optional sign
Unsigned(str) ==
  IF Len(str) > 0 /\ str[1] \in {"+", "-"} THEN Tail(str) ELSE str

\* int(str) succeeds
StrIsInt(str) ==
  LET u == Unsigned(Strip(str)) IN Len(u) > 0 /\ DigitsOk(u, FALSE)

\* int(str) when it succeeds
StrToInt(str) ==
  LET t == Strip(str)
      v == DigitsValue(Unsigned(t), 0)
  IN IF Len(t) > 0 /\ t[1] = "-" THEN -v ELSE v

\* ------------------------------------------------------------------------
\* JSON values, as json.loads builds them

NoKids == {}

JNull == [t |-> "null", s |-> <<>>, n |-> 0, kids |-> NoKids]

JBool(b) == [t |-> "bool", s |-> <<>>, n |-> IF b THEN 1 ELSE 0, kids |-> NoKids]

JInt(i) == [t |-> "int", s |-> <<>>, n |-> i, kids |-> NoKids]

\* a finite float, in tenths
JFloat(tenths) == [t |-> "float", s |-> <<>>, n |-> tenths, kids |-> NoKids]

JNaN == [t |-> "nan", s |-> <<>>, n |-> 0, kids |-> NoKids]

\* Infinity, and any literal beyond the double range such as 1e999
JInf == [t |-> "inf", s |-> <<>>, n |-> 1, kids |-> NoKids]

JNegInf == [t |-> "inf", s |-> <<>>, n |-> -1, kids |-> NoKids]

JStr(str) == [t |-> "str", s |-> str, n |-> 0, kids |-> NoKids]

JList == [t |-> "list", s |-> <<>>, n |-> 0, kids |-> NoKids]

JEmptyObj == [t |-> "obj", s |-> <<>>, n |-> 0, kids |-> NoKids]

\* the object {key: val}
JObj(key, val) == [t |-> "obj", s |-> <<>>, n |-> 0, kids |-> {<<key, val>>}]

HasKey(v, key) == v.t = "obj" /\ \E p \in v.kids : p[1] = key

ValueAt(v, key) == (CHOOSE p \in v.kids : p[1] = key)[2]

\* ------------------------------------------------------------------------
\* Python operations on JSON values; each yields a value or an exception class

PyOk(v) == [ok |-> TRUE, val |-> v, exc |-> "none"]

PyErr(cls) == [ok |-> FALSE, val |-> JNull, exc |-> cls]

\* v[key]
Subscript(v, key) ==
  IF v.t = "obj"
  THEN IF HasKey(v, key) THEN PyOk(ValueAt(v, key)) ELSE PyErr("KeyError")
  ELSE PyErr("TypeError")

\* v.upper()
CallUpper(v) ==
  IF v.t = "str" THEN PyOk(JStr(StrUpper(v.s))) ELSE PyErr("AttributeError")

\* v.get(key)
CallGet(v, key) ==
  IF v.t = "obj"
  THEN IF HasKey(v, key) THEN PyOk(ValueAt(v, key)) ELSE PyOk(JNull)
  ELSE PyErr("AttributeError")

\* truncation of a float kept in tenths, toward zero
TruncTenths(n) == IF n >= 0 THEN n \div 10 ELSE -((-n) \div 10)

\* int(v)
PyInt(v) ==
  CASE v.t = "int"   -> PyOk(JInt(v.n))
    [] v.t = "bool"  -> PyOk(JInt(v.n))
    [] v.t = "float" -> PyOk(JInt(TruncTenths(v.n)))
    [] v.t = "nan"   -> PyErr("ValueError")
    [] v.t = "inf"   -> PyErr("OverflowError")
    [] v.t = "str"   -> IF StrIsInt(v.s) THEN PyOk(JInt(StrToInt(v.s)))
                        ELSE PyErr("ValueError")
    [] OTHER         -> PyErr("TypeError")

\* ------------------------------------------------------------------------
\* Exceptions: class, fixed message text, number carried in the message

Exc(cls, msg, code) == [cls |-> cls, msg |-> msg, code |-> code]

NoExc == Exc("none", "", 0)

\* the classes an exception class is an instance of (itself and its bases)
Mro(cls) ==
  CASE cls = "HttpDriverException"      -> {"HttpDriverException"}
    [] cls = "HttpConnectionError"      -> {"HttpConnectionError", "HttpDriverException"}
    [] cls = "HttpTimeoutError"         -> {"HttpTimeoutError", "HttpDriverException"}
    [] cls = "HttpAuthenticationError"  -> {"HttpAuthenticationError", "HttpDriverException"}
    [] cls = "HttpStatusError"          -> {"HttpStatusError", "HttpDriverException"}
    [] cls = "HttpUnexpectedError"      -> {"HttpUnexpectedError", "HttpDriverException"}
    [] cls = "InvalidHealthStatusError" -> {"InvalidHealthStatusError", "ServiceError"}
    [] cls = "StatusFormatError"        -> {"StatusFormatError", "ServiceError"}
    [] cls = "ServiceNotFoundError"     -> {"ServiceNotFoundError", "ServiceError"}
    [] cls = "InvalidNagiosStateError"  -> {"InvalidNagiosStateError", "NagiosError"}
    [] cls = "JSONDecodeError"          -> {"JSONDecodeError", "ValueError"}
    [] cls = "UnboundLocalError"        -> {"UnboundLocalError", "NameError"}
    [] cls = "OverflowError"            -> {"OverflowError", "ArithmeticError"}
    [] OTHER                            -> {cls}

IsInstance(cls, base) == base \in Mro(cls)

\* the classes of requests.exceptions that derive from RequestException
\* without being a ConnectionError, a Timeout or an HTTPError
PlainRequestExceptions ==
  {"RequestException", "InvalidJSONError", "JSONDecodeError", "URLRequired",
   "TooManyRedirects",
   "MissingSchema", "InvalidSchema", "InvalidURL", "InvalidProxyURL",
   "InvalidHeader", "ChunkedEncodingError", "ContentDecodingError",
   "StreamConsumedError", "RetryError", "UnrewindableBodyError"}

\* the classes of requests.exceptions an exception class is an instance of,
\* among those the except clauses of the driver name.  The names are those of
\* requests.exceptions: "ConnectionError" is requests' class, not the
\* built-in one.  A class that is not of the library (ValueError, OSError,
\* KeyError, ...) is an instance of none of them.
RequestsMro(cls) ==
  CASE cls = "ConnectionError"  -> {"ConnectionError", "RequestException"}
    [] cls = "ProxyError"       -> {"ProxyError", "ConnectionError", "RequestException"}
    [] cls = "SSLError"         -> {"SSLError", "ConnectionError", "RequestException"}
    [] cls = "Timeout"          -> {"Timeout", "RequestException"}
    [] cls = "ReadTimeout"      -> {"ReadTimeout", "Timeout", "RequestException"}
    [] cls = "ConnectTimeout"   -> {"ConnectTimeout", "ConnectionError", "Timeout",
                                    "RequestException"}
    [] cls = "HTTPError"        -> {"HTTPError", "RequestException"}
    [] cls \in PlainRequestExceptions -> {cls, "RequestException"}
    [] OTHER                    -> {cls}

\* ------------------------------------------------------------------------
\* Severity labels

LabelOK == <<"O","K">>

LabelWARNING == <<"W","A","R","N","I","N","G">>

LabelCRITICAL == <<"C","R","I","T","I","C","A","L">>

LabelUNKNOWN == <<"U","N","K","N","O","W","N">>

Labels == {LabelOK, LabelWARNING, LabelCRITICAL, LabelUNKNOWN}

\* ------------------------------------------------------------------------
\* Outcome of a call: a returned label or a raised exception

Return(label) == [kind |-> "return", label |-> label, exc |-> NoExc]

Raise(e) == [kind |-> "raise", label |-> <<>>, exc |-> e]

\* an Enum as the set of its <<member name, member value>> pairs
EnumHas(enum, name) == \E m \in enum : m[1] = name

EnumValue(enum, name) == (CHOOSE m \in enum : m[1] = name)[2]

\* ------------------------------------------------------------------------
\* HTTP driver (src/lib/http_driver.py)

\* a response body: text that parses as JSON to doc, or text that does not
JsonBody(doc) == [valid |-> TRUE, doc |-> doc]

NotJsonBody == [valid |-> FALSE, doc |-> JNull]

\* what requests.request does: it returns a response or raises
TransportResponse(code, body) ==
  [kind |-> "response", status_code |-> code, body |-> body,
   exc |-> "none", has_response |-> TRUE]

\* an exception of the requests library; an HTTPError may carry a response
TransportRaise(cls, hasResponse, code) ==
  [kind |-> "raise", status_code |-> code, body |-> NotJsonBody,
   exc |-> cls, has_response |-> hasResponse]

DriverReturn(code, body) ==
  [kind |-> "response", status_code |-> code, body |-> body, exc |-> NoExc]

DriverRaise(e) ==
  [kind |-> "raise", status_code |-> 0, body |-> NotJsonBody, exc |-> e]

\* raise_for_status raising for 5xx only
RaisesForStatus_serverOnly(code) == 500 <= code /\ code < 600

\* Response.raise_for_status raises HTTPError for 4xx and 5xx
RaisesForStatus(code) == 400 <= code /\ code < 600

\* the except HTTPError clause without the test for 401
HandleHTTPError_no401(hasResponse, code) ==
  IF hasResponse
  THEN DriverRaise(Exc("HttpStatusError", "HTTP error occurred: ", code))
  ELSE DriverRaise(Exc("HttpDriverException", "HTTP error occurred", 0))

\* the except HTTPError clause
HandleHTTPError(hasResponse, code) ==
  IF hasResponse
  THEN IF code = 401
       THEN DriverRaise(Exc("HttpAuthenticationError", "Authentication failed", 0))
       ELSE DriverRaise(Exc("HttpStatusError", "HTTP error occurred: ", code))
  ELSE DriverRaise(Exc("HttpDriverException", "HTTP error occurred", 0))

\* the except clauses of HttpDriver.request, in source order
HandleRequestsException(cls, hasResponse, code) ==
  IF "ConnectionError" \in RequestsMro(cls)
  THEN DriverRaise(Exc("HttpConnectionError",
                       "Error trying to connect to HTTP server", 0))
  ELSE IF "Timeout" \in RequestsMro(cls)
  THEN DriverRaise(Exc("HttpTimeoutError", "Request timed out", 0))
  ELSE IF "HTTPError" \in RequestsMro(cls)
  THEN HandleHTTPError(hasResponse, code)
  ELSE IF "RequestException" \in RequestsMro(cls)
  THEN DriverRaise(Exc("HttpUnexpectedError", "Unexpected error: ", 0))
  ELSE DriverRaise(Exc(cls, "", 0))

\* HttpDriver.request, given what the transport did
DriverRequest(tr) ==
  IF tr.kind = "response"
  THEN IF RaisesForStatus(tr.status_code)
       THEN HandleRequestsException("HTTPError", TRUE, tr.status_code)
       ELSE DriverReturn(tr.status_code, tr.body)
  ELSE HandleRequestsException(tr.exc, tr.has_response, tr.status_code)

\* ------------------------------------------------------------------------
\* Probes (src/services/*.py)

\* response.json(): the parsed body, or JSONDecodeError
ResponseJson(dr) ==
  IF dr.body.valid THEN PyOk(dr.body.doc) ELSE PyErr("JSONDecodeError")

\* the local variable data is bound once response.json() has returned
DataBound(dr) == dr.kind = "response" /\ dr.body.valid

\* data.get(key) as the except clauses evaluate it for their log record
DataGet(dr, key) ==
  IF DataBound(dr) THEN CallGet(dr.body.doc, key) ELSE PyErr("UnboundLocalError")

\* Enum[name].value, or KeyError
EnumLookup(enum, name) ==
  IF EnumHas(enum, name) THEN Return(EnumValue(enum, name))
  ELSE Raise(Exc("KeyError", "", 0))

\* HealthStatus whose members have their own names as values
ES_HealthStatus_names ==
  { << <<"G","R","E","E","N">>, <<"G","R","E","E","N">> >>,
    << <<"Y","E","L","L","O","W">>, <<"Y","E","L","L","O","W">> >>,
    << <<"R","E","D">>, <<"R","E","D">> >>,
    << <<"U","N","K","N","O","W","N">>, LabelUNKNOWN >> }

\* class HealthStatus of elasticsearch_service.py
ES_HealthStatus ==
  { << <<"G","R","E","E","N">>, LabelOK >>,
    << <<"Y","E","L","L","O","W">>, LabelWARNING >>,
    << <<"R","E","D">>, LabelCRITICAL >>,
    << <<"U","N","K","N","O","W","N">>, LabelUNKNOWN >> }

\* the try block of ElasticsearchService.get_status
ES_TryBody(dr) ==
  IF dr.kind = "raise" THEN Raise(dr.exc)
  ELSE LET data == ResponseJson(dr) IN
    IF ~data.ok THEN Raise(Exc(data.exc, "", 0))
    ELSE LET st == Subscript(data.val, "status") IN
      IF ~st.ok THEN Raise(Exc(st.exc, "", 0))
      ELSE LET up == CallUpper(st.val) IN
        IF ~up.ok THEN Raise(Exc(up.exc, "", 0))
        ELSE EnumLookup(ES_HealthStatus, up.val.s)

\* an except clause that logs logArg and raises cls
LogAndRaise(logArg, cls, msg) ==
  IF logArg.ok THEN Raise(Exc(cls, msg, 0)) ELSE Raise(Exc(logArg.exc, "", 0))


\* get_status falling back to UNKNOWN for a name the enum lacks
ES_GetStatus_default(dr) ==
  LET r == ES_TryBody(dr) IN
  IF r.kind = "return" THEN r
  ELSE IF IsInstance(r.exc.cls, "KeyError") /\ HasKey(dr.body.doc, "status")
  THEN Return(LabelUNKNOWN)
  ELSE IF IsInstance(r.exc.cls, "KeyError")
  THEN LogAndRaise(DataGet(dr, "status"), "InvalidHealthStatusError",
                   "Invalid health status received: ")
  ELSE IF IsInstance(r.exc.cls, "AttributeError")
  THEN LogAndRaise(DataGet(dr, "status"), "StatusFormatError",
                   "Status is None or not a string: ")
  ELSE r

\* get_status with the errors of the two except clauses exchanged
ES_GetStatus_swapped(dr) ==
  LET r == ES_TryBody(dr) IN
  IF r.kind = "return" THEN r
  ELSE IF IsInstance(r.exc.cls, "KeyError")
  THEN LogAndRaise(DataGet(dr, "status"), "StatusFormatError",
                   "Status is None or not a string: ")
  ELSE IF IsInstance(r.exc.cls, "AttributeError")
  THEN LogAndRaise(DataGet(dr, "status"), "InvalidHealthStatusError",
                   "Invalid health status received: ")
  ELSE r

\* ElasticsearchService.get_status
ES_GetStatus(dr) ==
  LET r == ES_TryBody(dr) IN
  IF r.kind = "return" THEN r
  ELSE IF IsInstance(r.exc.cls, "KeyError")
  THEN LogAndRaise(DataGet(dr, "status"), "InvalidHealthStatusError",
                   "Invalid health status received: ")
  ELSE IF IsInstance(r.exc.cls, "AttributeError")
  THEN LogAndRaise(DataGet(dr, "status"), "StatusFormatError",
                   "Status is None or not a string: ")
  ELSE r


\* HealthStatus with UNAVAILABLE given the value of CRITICAL
Kibana_HealthStatus_wrong ==
  { << <<"A","V","A","I","L","A","B","L","E">>, LabelOK >>,
    << <<"D","E","G","R","A","D","E","D">>, LabelWARNING >>,
    << <<"C","R","I","T","I","C","A","L">>, LabelCRITICAL >>,
    << <<"U","N","A","V","A","I","L","A","B","L","E">>, LabelCRITICAL >> }

\* class HealthStatus of kibana_service.py
Kibana_HealthStatus ==
  { << <<"A","V","A","I","L","A","B","L","E">>, LabelOK >>,
    << <<"D","E","G","R","A","D","E","D">>, LabelWARNING >>,
    << <<"C","R","I","T","I","C","A","L">>, LabelCRITICAL >>,
    << <<"U","N","A","V","A","I","L","A","B","L","E">>, LabelUNKNOWN >> }

\* v[k1][k2][k3], left to right, stopping at the first exception
Subscript3(v, k1, k2, k3) ==
  LET a == Subscript(v, k1) IN
  IF ~a.ok THEN a
  ELSE LET b == Subscript(a.val, k2) IN
    IF ~b.ok THEN b ELSE Subscript(b.val, k3)

\* the try block of KibanaService.get_status
Kibana_TryBody(dr) ==
  IF dr.kind = "raise" THEN Raise(dr.exc)
  ELSE LET data == ResponseJson(dr) IN
    IF ~data.ok THEN Raise(Exc(data.exc, "", 0))
    ELSE LET lv == Subscript3(data.val, "status", "overall", "level") IN
      IF ~lv.ok THEN Raise(Exc(lv.exc, "", 0))
      ELSE LET up == CallUpper(lv.val) IN
        IF ~up.ok THEN Raise(Exc(up.exc, "", 0))
        ELSE EnumLookup(Kibana_HealthStatus, up.val.s)

\* KibanaService.get_status
Kibana_GetStatus(dr) ==
  LET r == Kibana_TryBody(dr) IN
  IF r.kind = "return" THEN r
  ELSE IF IsInstance(r.exc.cls, "KeyError")
  THEN LogAndRaise(DataGet(dr, "status"), "InvalidHealthStatusError",
                   "Invalid health status received: ")
  ELSE IF IsInstance(r.exc.cls, "AttributeError")
  THEN LogAndRaise(DataGet(dr, "status"), "StatusFormatError",
                   "Status is None or not a string: ")
  ELSE r

\* thresholds of LogstashService.get_status
CpuWarning == 70

CpuCritical == 85


\* the if/elif chain with the first comparison made inclusive
Logstash_Band_inclusive(cpu_usage) ==
  IF cpu_usage <= CpuWarning THEN LabelOK
  ELSE IF CpuWarning <= cpu_usage /\ cpu_usage < CpuCritical THEN LabelWARNING
  ELSE IF cpu_usage >= CpuCritical THEN LabelCRITICAL
  ELSE LabelUNKNOWN

\* the if/elif chain over cpu_usage
Logstash_Band(cpu_usage) ==
  IF cpu_usage < CpuWarning THEN LabelOK
  ELSE IF CpuWarning <= cpu_usage /\ cpu_usage < CpuCritical THEN LabelWARNING
  ELSE IF cpu_usage >= CpuCritical THEN LabelCRITICAL
  ELSE LabelUNKNOWN

\* the try block of LogstashService.get_status
Logstash_TryBody(dr) ==
  IF dr.kind = "raise" THEN Raise(dr.exc)
  ELSE LET data == ResponseJson(dr) IN
    IF ~data.ok THEN Raise(Exc(data.exc, "", 0))
    ELSE LET pv == Subscript3(data.val, "process", "cpu", "percent") IN
      IF ~pv.ok THEN Raise(Exc(pv.exc, "", 0))
      ELSE LET cpu == PyInt(pv.val) IN
        IF ~cpu.ok THEN Raise(Exc(cpu.exc, "", 0))
        ELSE Return(Logstash_Band(cpu.val.n))

\* data["process"]["cpu"].get("percent"), the log argument of the ValueError
\* and TypeError clauses
Logstash_LogArg(dr) ==
  IF ~DataBound(dr) THEN PyErr("UnboundLocalError")
  ELSE LET a == Subscript(dr.body.doc, "process") IN
    IF ~a.ok THEN a
    ELSE LET b == Subscript(a.val, "cpu") IN
      IF ~b.ok THEN b ELSE CallGet(b.val, "percent")

\* LogstashService.get_status
Logstash_GetStatus(dr) ==
  LET r == Logstash_TryBody(dr) IN
  IF r.kind = "return" THEN r
  ELSE IF IsInstance(r.exc.cls, "KeyError")
  THEN Raise(Exc("InvalidHealthStatusError",
                 "Invalid health status data, missing key: ", 0))
  ELSE IF IsInstance(r.exc.cls, "ValueError")
  THEN LogAndRaise(Logstash_LogArg(dr), "InvalidHealthStatusError",
                   "Invalid CPU usage value: ")
  ELSE IF IsInstance(r.exc.cls, "TypeError")
  THEN LogAndRaise(Logstash_LogArg(dr), "InvalidHealthStatusError",
                   "Invalid CPU usage value: ")
  ELSE r

\* get_status re-wrapping every exception of the driver as one generic error
get_status_wrapped(service_class, dr) ==
  IF dr.kind = "raise" THEN Raise(Exc("ServiceRequestError", "", 0))
  ELSE CASE service_class = "ElasticsearchService" -> ES_GetStatus(dr)
         [] service_class = "KibanaService"        -> Kibana_GetStatus(dr)
         [] service_class = "LogstashService"      -> Logstash_GetStatus(dr)

\* service.get_status() of the resolved class
get_status(service_class, dr) ==
  CASE service_class = "ElasticsearchService" -> ES_GetStatus(dr)
    [] service_class = "KibanaService"        -> Kibana_GetStatus(dr)
    [] service_class = "LogstashService"      -> Logstash_GetStatus(dr)

\* ------------------------------------------------------------------------
\* The request of a probe (src/services/*.py, src/lib/http_driver.py)

\* STATUS_CHECK_ENDPOINT of each service module
STATUS_CHECK_ENDPOINT(service_class) ==
  CASE service_class = "ElasticsearchService" -> <<"/","_","h","e","a","l","t","h","_","r","e","p","o","r","t">>
    [] service_class = "KibanaService"        -> <<"/","a","p","i","/","s","t","a","t","u","s">>
    [] service_class = "LogstashService"      -> <<"/","_","n","o","d","e","/","s","t","a","t","s","/","p","r","o","c","e","s","s">>

\* a keyword argument that may be absent, None or a number
NoKw == [given |-> FALSE, none |-> FALSE, n |-> 0]

KwNone == [given |-> TRUE, none |-> TRUE, n |-> 0]

KwInt(n) == [given |-> TRUE, none |-> FALSE, n |-> n]

\* the call of requests.request: method, url and the keyword arguments
Request(method, url, user, password, verify, timeout) ==
  [method |-> method, url |-> url, user |-> user, password |-> password,
   verify |-> verify, timeout |-> timeout]

\* the default of os.getenv("HTTP_TIMEOUT", "5")
DefaultHttpTimeout == <<"5">>

\* Config.HTTP_TIMEOUT = int(os.getenv("HTTP_TIMEOUT", "5")), evaluated when
\* src.lib.config is imported: the number, or the ValueError of int()
Config_HTTP_TIMEOUT(environ) ==
  IF environ.HTTP_TIMEOUT.set THEN PyInt(JStr(environ.HTTP_TIMEOUT.text))
  ELSE PyInt(JStr(DefaultHttpTimeout))

\* setdefault overwriting a timeout of None with the configured one
SetDefaultTimeout_overNone(timeout, configured) ==
  IF timeout.given /\ ~timeout.none THEN timeout ELSE KwInt(configured)

\* kwargs.setdefault('timeout', self.timeout): a key that is present keeps its
\* value, None included
SetDefaultTimeout(timeout, configured) ==
  IF timeout.given THEN timeout ELSE KwInt(configured)

\* what HttpDriver.request hands to requests.request
DriverSend(req, configured) ==
  [req EXCEPT !.timeout = SetDefaultTimeout(req.timeout, configured)]

\* get_status with verification of the certificate left on
ProbeCall_verify(service_class, a) ==
  Request("GET", a.endpoint \o STATUS_CHECK_ENDPOINT(service_class),
          a.user, a.password, TRUE, NoKw)

\* self.driver.request("GET", endpoint, auth=(self.user, self.password),
\* verify=False) with endpoint = f"{self.base_endpoint}{STATUS_CHECK_ENDPOINT}"
ProbeCall(service_class, a) ==
  Request("GET", a.endpoint \o STATUS_CHECK_ENDPOINT(service_class),
          a.user, a.password, FALSE, NoKw)

\* get_status sending the request again after a failure of the transport
ProbeRequests_retry(service_class, a, configured, tr) ==
  IF tr.kind = "raise"
  THEN << DriverSend(ProbeCall(service_class, a), configured),
          DriverSend(ProbeCall(service_class, a), configured) >>
  ELSE << DriverSend(ProbeCall(service_class, a), configured) >>

\* the requests one call of get_status sends, whatever the transport does
\* with them: the one call of self.driver.request, which calls
\* requests.request once
ProbeRequests(service_class, a, configured, tr) ==
  << DriverSend(ProbeCall(service_class, a), configured) >>

\* ------------------------------------------------------------------------
\* Service registry (src/services/base_service.py)

Class_Elasticsearch == <<"E","l","a","s","t","i","c","s","e","a","r","c","h","S","e","r","v","i","c","e">>

Class_Kibana == <<"K","i","b","a","n","a","S","e","r","v","i","c","e">>

Class_Logstash == <<"L","o","g","s","t","a","s","h","S","e","r","v","i","c","e">>

\* the class of src/services/elastic_search_service.py
Class_ElasticSearch == <<"E","l","a","s","t","i","c","S","e","a","r","c","h","S","e","r","v","i","c","e">>

\* the modules under src/services that define a subclass of BaseService
ServiceModules ==
  {"elasticsearch_service", "kibana_service", "logstash_service",
   "elastic_search_service"}

\* the class statement of each module
ModuleClass(m) ==
  CASE m = "elasticsearch_service"  -> Class_Elasticsearch
    [] m = "kibana_service"         -> Class_Kibana
    [] m = "logstash_service"       -> Class_Logstash
    [] m = "elastic_search_service" -> Class_ElasticSearch

\* the names each module imports from src.lib.exceptions
ModuleImports(m) ==
  CASE m = "elasticsearch_service"  -> {"InvalidHealthStatusError", "StatusFormatError"}
    [] m = "kibana_service"         -> {"InvalidHealthStatusError", "StatusFormatError"}
    [] m = "logstash_service"       -> {"InvalidHealthStatusError"}
    [] m = "elastic_search_service" ->
         {"HttpDriverException", "InvalidHealthStatusError", "StatusFormatError",
          "ServiceRequestError"}

\* the classes src/lib/exceptions.py defines
ExceptionsDefined ==
  {"HttpDriverException", "HttpConnectionError", "HttpTimeoutError",
   "HttpAuthenticationError", "HttpStatusError", "HttpUnexpectedError",
   "ServiceError", "InvalidHealthStatusError", "StatusFormatError",
   "ServiceNotFoundError", "NagiosError", "InvalidNagiosStateError"}

\* the import statements at the top of module m all succeed, so that its class
\* statement is reached
ImportSucceeds(m) == ModuleImports(m) \subseteq ExceptionsDefined

\* the modules check_services.py imports, in source order
ProgramImports == <<"elasticsearch_service", "kibana_service", "logstash_service">>

\* BaseService.__subclasses__() once check_services.py is loaded
ProgramSubclasses == [i \in 1..Len(ProgramImports) |-> ModuleClass(ProgramImports[i])]

\* sub.__name__.replace("Service", "") without the lower-casing
RegistryKey_keepCase(clsname) == StrRemove(clsname, <<"S","e","r","v","i","c","e">>)

\* sub.__name__.replace("Service", "").lower()
RegistryKey(clsname) == StrLower(StrRemove(clsname, <<"S","e","r","v","i","c","e">>))

ResolvedClass(cls) == [kind |-> "class", cls |-> cls, exc |-> "none", msg |-> <<>>]

\* ServiceNotFoundError(f"ERROR: Service '{service_name}' not recognized!")
ServiceNotFound(service_name) ==
  [kind |-> "raise", cls |-> <<>>, exc |-> "ServiceNotFoundError",
   msg |-> <<"E","R","R","O","R",":"," ","S","e","r","v","i","c","e"," ","'">> \o service_name \o <<"'"," ","n","o","t"," ","r","e","c","o","g","n","i","z","e","d","!">>]

\* get_service looking the name up as given, without lower-casing it
BaseService_get_service_exact(subclasses, service_name) ==
  LET hits == {i \in 1..Len(subclasses) : RegistryKey(subclasses[i]) = service_name}
  IN IF hits # {}
     THEN ResolvedClass(subclasses[CHOOSE i \in hits : \A j \in hits : j <= i])
     ELSE ServiceNotFound(service_name)

\* BaseService.get_service: the dict built from __subclasses__() keeps, for a
\* key, the last class that has it
BaseService_get_service(subclasses, service_name) ==
  LET key  == StrLower(service_name)
      hits == {i \in 1..Len(subclasses) : RegistryKey(subclasses[i]) = key}
  IN IF hits # {}
     THEN ResolvedClass(subclasses[CHOOSE i \in hits : \A j \in hits : j <= i])
     ELSE ServiceNotFound(service_name)

\* the string click hands to check_service for a value of --check
ChoiceChars(check) ==
  CASE check = "elasticsearch" -> <<"e","l","a","s","t","i","c","s","e","a","r","c","h">>
    [] check = "kibana"        -> <<"k","i","b","a","n","a">>
    [] check = "logstash"      -> <<"l","o","g","s","t","a","s","h">>

\* the class a class name stands for
ClassOf(clsname) ==
  CASE clsname = Class_Elasticsearch -> "ElasticsearchService"
    [] clsname = Class_Kibana        -> "KibanaService"
    [] clsname = Class_Logstash      -> "LogstashService"
    [] clsname = Class_ElasticSearch -> "ElasticSearchService"

\* BaseService.get_service(check) of check_service, over a registry without
\* the class of kibana_service.py
get_service_noKibana(registry, check) ==
  BaseService_get_service(SelectSeq(registry, LAMBDA c : c # Class_Kibana),
                          ChoiceChars(check))

\* BaseService.get_service(check) as check_service calls it
get_service(registry, check) ==
  BaseService_get_service(registry, ChoiceChars(check))

\* ------------------------------------------------------------------------
\* Nagios reporter (src/nagios/*.py)

\* the nagiosplugin states: exit code and text
StateCode(state) ==
  CASE state = "Ok"       -> 0
    [] state = "Warn"     -> 1
    [] state = "Critical" -> 2
    [] state = "Unknown"  -> 3

StateText(state) ==
  CASE state = "Ok"       -> <<"o","k">>
    [] state = "Warn"     -> <<"w","a","r","n","i","n","g">>
    [] state = "Critical" -> <<"c","r","i","t","i","c","a","l">>
    [] state = "Unknown"  -> <<"u","n","k","n","o","w","n">>

\* class NagiosState: member name and nagiosplugin state
NagiosState ==
  { <<LabelOK, "Ok">>, <<LabelWARNING, "Warn">>,
    <<LabelCRITICAL, "Critical">>, <<LabelUNKNOWN, "Unknown">> }

\* [nagiosplugin.Metric("service_status", code, context=self.context)]: a list
\* of count metrics
MetricOf(value) ==
  [kind |-> "metric", count |-> 1, name |-> "service_status",
   context |-> "service_health", value |-> value, exc |-> NoExc, arg |-> <<>>]

\* an exception raised with the argument arg
MetricRaise(e, arg) ==
  [kind |-> "raise", count |-> 0, name |-> "", context |-> "", value |-> -1,
   exc |-> e, arg |-> arg]

\* probe looking the label up as given, without upper-casing it
Resource_probe_exact(status) ==
  IF EnumHas(NagiosState, status)
  THEN MetricOf(StateCode(EnumValue(NagiosState, status)))
  ELSE MetricRaise(Exc("InvalidNagiosStateError", "", 0), status)

\* ServiceHealthResource.probe
Resource_probe(status) ==
  LET name == StrUpper(status) IN
  IF EnumHas(NagiosState, name)
  THEN MetricOf(StateCode(EnumValue(NagiosState, name)))
  ELSE MetricRaise(Exc("InvalidNagiosStateError", "", 0), status)


\* state_mapping with the Warn and Critical entries exchanged
state_mapping_swapped ==
  [v \in 0..3 |->
     CASE v = 0 -> "Ok"
       [] v = 1 -> "Critical"
       [] v = 2 -> "Warn"
       [] v = 3 -> "Unknown"]

\* state_mapping
state_mapping ==
  [v \in 0..3 |->
     CASE v = 0 -> "Ok"
       [] v = 1 -> "Warn"
       [] v = 2 -> "Critical"
       [] v = 3 -> "Unknown"]

\* state_messages with the messages of Ok and Unknown exchanged
state_messages_swapped ==
  [v \in 0..3 |->
     CASE v = 0 -> "Service state is unknown, please check the configuration or logs."
       [] v = 1 -> "Potential issue detected, investigate soon."
       [] v = 2 -> "Service is in a critical state. Action needed immediately!"
       [] v = 3 -> "Service is up."]

\* state_messages
state_messages ==
  [v \in 0..3 |->
     CASE v = 0 -> "Service is up."
       [] v = 1 -> "Potential issue detected, investigate soon."
       [] v = 2 -> "Service is in a critical state. Action needed immediately!"
       [] v = 3 -> "Service state is unknown, please check the configuration or logs."]

\* custom_description: None, or a string
NoneDesc == [some |-> FALSE, text |-> ""]

SomeDesc(text) == [some |-> TRUE, text |-> text]

\* evaluate with Ok as the default of the dictionary lookup
evaluate_defaultOk(value) ==
  IF value \in DOMAIN state_mapping THEN state_mapping[value] ELSE "Ok"

\* ServiceHealthContext.evaluate
evaluate(value) ==
  IF value \in DOMAIN state_mapping THEN state_mapping[value] ELSE "Unknown"

\* describe testing the truth of the custom description instead of 'is not None'
describe_truthy(custom, value) ==
  IF custom.some /\ custom.text # "" THEN custom.text
  ELSE IF value \in DOMAIN state_messages THEN state_messages[value]
  ELSE "No status available"

\* ServiceHealthContext.describe
describe(custom, value) ==
  IF custom.some THEN custom.text
  ELSE IF value \in DOMAIN state_messages THEN state_messages[value]
  ELSE "No status available"

\* performance formatting the metric's context name instead of its value
performance_wrongField(value) ==
  <<"s","e","r","v","i","c","e","_","s","t","a","t","u","s","=">> \o <<"s","e","r","v","i","c","e","_","h","e","a","l","t","h">>

\* ServiceHealthContext.performance: f"service_status={metric.value}"
performance(value) ==
  <<"s","e","r","v","i","c","e","_","s","t","a","t","u","s","=">> \o IntToStr(value)

\* what the process printed: the status line '<WORD> - <summary>' and perfdata
NoOutput == [printed |-> FALSE, word |-> <<>>, summary |-> "", perf |-> <<>>]

StatusLine(word, summary, perf) ==
  [printed |-> TRUE, word |-> word, summary |-> summary, perf |-> perf]

\* Check.main: probe the resource, evaluate and describe the metric, print the
\* status line and exit with the state's code; an exception of probe is
\* reported by nagiosplugin as Unknown
CheckMain(status, custom) ==
  LET m == Resource_probe(status) IN
  IF m.kind = "raise"
  THEN [exit_code |-> StateCode("Unknown"),
        output |-> StatusLine(StrUpper(StateText("Unknown")), m.exc.cls,
                              performance(-1))]
  ELSE LET state == evaluate(m.value) IN
       [exit_code |-> StateCode(state),
        output |-> StatusLine(StrUpper(StateText(state)),
                              describe(custom, m.value), performance(m.value))]

\* ------------------------------------------------------------------------
\* Orchestrator (src/check_services.py)


\* the except clauses with the messages of the first two exchanged
ExceptClause_swapped(cls) ==
  IF IsInstance(cls, "HttpConnectionError")
  THEN SomeDesc("Service request timed out.")
  ELSE IF IsInstance(cls, "HttpTimeoutError")
  THEN SomeDesc("Unable to connect to the service.")
  ELSE IF IsInstance(cls, "HttpAuthenticationError")
  THEN SomeDesc("Authentication failed for the service.")
  ELSE IF IsInstance(cls, "HttpStatusError")
  THEN SomeDesc("An HTTP status error occurred.")
  ELSE IF IsInstance(cls, "HttpUnexpectedError")
  THEN SomeDesc("An unexpected error occurred.")
  ELSE NoneDesc

\* the except clauses of check_service: the override message of the first
\* clause the exception is an instance of, or None when no clause matches
ExceptClause(cls) ==
  IF IsInstance(cls, "HttpConnectionError")
  THEN SomeDesc("Unable to connect to the service.")
  ELSE IF IsInstance(cls, "HttpTimeoutError")
  THEN SomeDesc("Service request timed out.")
  ELSE IF IsInstance(cls, "HttpAuthenticationError")
  THEN SomeDesc("Authentication failed for the service.")
  ELSE IF IsInstance(cls, "HttpStatusError")
  THEN SomeDesc("An HTTP status error occurred.")
  ELSE IF IsInstance(cls, "HttpUnexpectedError")
  THEN SomeDesc("An unexpected error occurred.")
  ELSE NoneDesc

\* exit status of the interpreter when an exception is not handled
UncaughtExit == 1

\* ------------------------------------------------------------------------
\* Log records (logging calls of src/**/*.py, src/lib/logging_config.py)

DEBUG == 10

INFO == 20

ERROR == 40

\* logging.basicConfig(level=getattr(logging, log_level, logging.INFO)) for
\* the upper-cased LOG_LEVEL: the level the root logger gets, or the exception
\* of basicConfig when the attribute of that name is no level (the format
\* string BASIC_FORMAT, the dict _STYLES)
LevelOf(name) ==
  CASE name = <<"D","E","B","U","G">>    -> PyOk(JInt(DEBUG))
    [] name = <<"I","N","F","O">>     -> PyOk(JInt(INFO))
    [] name = <<"W","A","R","N","I","N","G">>  -> PyOk(JInt(30))
    [] name = <<"W","A","R","N">>     -> PyOk(JInt(30))
    [] name = <<"E","R","R","O","R">>    -> PyOk(JInt(ERROR))
    [] name = <<"C","R","I","T","I","C","A","L">> -> PyOk(JInt(50))
    [] name = <<"F","A","T","A","L">>    -> PyOk(JInt(50))
    [] name = <<"N","O","T","S","E","T">>   -> PyOk(JInt(0))
    [] name = <<"B","A","S","I","C","_","F","O","R","M","A","T">> -> PyErr("ValueError")
    [] name = <<"_","S","T","Y","L","E","S">>  -> PyErr("TypeError")
    [] OTHER               -> PyOk(JInt(INFO))

\* the level of the root logger, set when src.lib.logging_config is imported:
\* os.getenv("LOG_LEVEL", "INFO").upper()
ConfiguredLevel(environ) ==
  IF environ.LOG_LEVEL.set THEN LevelOf(StrUpper(environ.LOG_LEVEL.text))
  ELSE LevelOf(StrUpper(<<"I","N","F","O">>))

\* arguments of a logging call: a str, an int, None, a JSON value, an
\* exception of the program with its fixed message, or text that comes from
\* the requests library (str of its exception, text of its response)
StrArg(str) == [t |-> "str", s |-> str, n |-> 0, v |-> JNull, text |-> ""]

IntArg(n) == [t |-> "int", s |-> <<>>, n |-> n, v |-> JNull, text |-> ""]

NoneArg == [t |-> "none", s |-> <<>>, n |-> 0, v |-> JNull, text |-> ""]

JsonArg(v) == [t |-> "json", s |-> <<>>, n |-> 0, v |-> v, text |-> ""]

ExcArg(e) == [t |-> "exc", s |-> <<>>, n |-> e.code, v |-> JNull, text |-> e.msg]

PlainArg(text) == [t |-> "text", s |-> <<>>, n |-> 0, v |-> JNull, text |-> text]

LibraryText(what) == [t |-> "library", s |-> <<>>, n |-> 0, v |-> JNull, text |-> what]

\* one logging call: level, logger, format string and arguments
LogRecord(level, logger, fmt, args) ==
  [level |-> level, logger |-> logger, fmt |-> fmt, args |-> args]

ServiceLogger == "src.services.base_service"

DriverLogger == "src.lib.http_driver"

\* the debug call at the top of each get_status
ProbeUrlLog(service_class, a) ==
  IF service_class = "ElasticsearchService"
  THEN << LogRecord(DEBUG, ServiceLogger, "url: %s", <<StrArg(a.endpoint)>>) >>
  ELSE << LogRecord(DEBUG, ServiceLogger, "URL: %s",
                    <<StrArg(a.endpoint \o STATUS_CHECK_ENDPOINT(service_class))>>) >>

\* the logging calls of HttpDriver.request for one request
DriverLog(req, tr) ==
  << LogRecord(DEBUG, DriverLogger, "Sending request: %s %s",
               <<PlainArg(req.method), StrArg(req.url)>>),
     LogRecord(DEBUG, DriverLogger, "Body: %s", <<NoneArg>>) >>
  \o
  IF tr.kind = "response" /\ ~RaisesForStatus(tr.status_code)
  THEN << LogRecord(DEBUG, DriverLogger, "Response: %s",
                    <<LibraryText("response.text")>>) >>
  ELSE LET cls == IF tr.kind = "response" THEN "HTTPError" ELSE tr.exc
           hasResponse == tr.kind = "response" \/ tr.has_response
       IN
    IF "ConnectionError" \in RequestsMro(cls)
    THEN << LogRecord(ERROR, DriverLogger, "%s", <<LibraryText("str(e)")>>) >>
    ELSE IF "Timeout" \in RequestsMro(cls)
    THEN << LogRecord(ERROR, DriverLogger, "Request timeout: %s",
                      <<LibraryText("str(e)")>>) >>
    ELSE IF "HTTPError" \in RequestsMro(cls)
    THEN IF hasResponse
         THEN << LogRecord(ERROR, DriverLogger, "HTTP error (%d): %s",
                           <<IntArg(tr.status_code), LibraryText("response.text")>>) >>
         ELSE << LogRecord(ERROR, DriverLogger,
                           "HTTP error occurred with no response details.", <<>>) >>
    ELSE IF "RequestException" \in RequestsMro(cls)
    THEN << LogRecord(ERROR, DriverLogger, "Unexpected request error: %s",
                      <<LibraryText("str(e)")>>) >>
    ELSE <<>>

\* data.get("status", {}), the log argument of the except clauses of
\* KibanaService.get_status
Kibana_LogArg(dr) ==
  IF ~DataBound(dr) THEN PyErr("UnboundLocalError")
  ELSE IF dr.body.doc.t # "obj" THEN PyErr("AttributeError")
  ELSE IF HasKey(dr.body.doc, "status") THEN PyOk(ValueAt(dr.body.doc, "status"))
  ELSE PyOk(JEmptyObj)

\* the error call of an except clause whose argument evaluated without error
HandlerLog(logArg, fmt) ==
  IF logArg.ok THEN << LogRecord(ERROR, ServiceLogger, fmt, <<JsonArg(logArg.val)>>) >>
  ELSE <<>>

\* the logging calls of the except clauses of get_status
ProbeHandlerLog(service_class, dr) ==
  LET r == CASE service_class = "ElasticsearchService" -> ES_TryBody(dr)
             [] service_class = "KibanaService"        -> Kibana_TryBody(dr)
             [] service_class = "LogstashService"      -> Logstash_TryBody(dr)
  IN
  IF r.kind # "raise" THEN <<>>
  ELSE IF service_class = "LogstashService"
  THEN IF IsInstance(r.exc.cls, "KeyError")
       THEN << LogRecord(ERROR, ServiceLogger,
                         "Error processing health data, missing key: %s",
                         <<LibraryText("str(e)")>>) >>
       ELSE IF IsInstance(r.exc.cls, "ValueError") \/ IsInstance(r.exc.cls, "TypeError")
       THEN HandlerLog(Logstash_LogArg(dr), "Invalid CPU usage value: %s")
       ELSE <<>>
  ELSE LET arg == IF service_class = "KibanaService"
                  THEN Kibana_LogArg(dr) ELSE DataGet(dr, "status")
       IN
    IF IsInstance(r.exc.cls, "KeyError")
    THEN HandlerLog(arg, "Invalid health status received: %s")
    ELSE IF IsInstance(r.exc.cls, "AttributeError")
    THEN HandlerLog(arg, "Status is None or not a string: %s")
    ELSE <<>>

\* everything one call of get_status logs
GetStatusLog(service_class, a, configured, tr) ==
  ProbeUrlLog(service_class, a)
  \o DriverLog(DriverSend(ProbeCall(service_class, a), configured), tr)
  \o ProbeHandlerLog(service_class, DriverRequest(tr))

\* the logger of check_services.py, logging.getLogger(__name__), in a process
\* that runs the file as its script
OrchestratorLogger == "__main__"

\* the log.error call of the except clause of check_service that matches
OrchestratorLog(e) ==
  LET fmt ==
    IF IsInstance(e.cls, "HttpConnectionError") THEN "Connection Error: %s"
    ELSE IF IsInstance(e.cls, "HttpTimeoutError") THEN "Timeout Error: %s"
    ELSE IF IsInstance(e.cls, "HttpAuthenticationError") THEN "Authentication Error: %s"
    ELSE IF IsInstance(e.cls, "HttpStatusError") THEN "HTTP Status Error: %s"
    ELSE IF IsInstance(e.cls, "HttpUnexpectedError") THEN "Unexpected Error: %s"
    ELSE ""
  IN IF fmt = "" THEN <<>>
     ELSE << LogRecord(ERROR, OrchestratorLogger, fmt, <<ExcArg(e)>>) >>

ResourceLogger == "src.nagios.service_health_resource"

\* the logging calls of ServiceHealthResource.__init__ and probe
ResourceLog(status) ==
  << LogRecord(DEBUG, ResourceLogger,
               "Initializing ServiceHealthResource with status: %s", <<StrArg(status)>>),
     LogRecord(INFO, ResourceLogger, "Probing service status: %s", <<StrArg(status)>>) >>
  \o
  IF EnumHas(NagiosState, StrUpper(status))
  THEN << LogRecord(DEBUG, ResourceLogger,
                    "Mapped service status %s to Nagios state %s",
                    <<StrArg(status), StrArg(StrUpper(status))>>),
          LogRecord(INFO, ResourceLogger, "Returning metric for service status: %s",
                    <<StrArg(StrUpper(status))>>) >>
  ELSE << LogRecord(ERROR, ResourceLogger, "Invalid service status received: %s",
                    <<StrArg(status)>>) >>

RECURSIVE AtLevel(_, _)
\* the records a logger at this level lets through
AtLevel(records, level) ==
  IF records = <<>> THEN <<>>
  ELSE (IF Head(records).level >= level THEN <<Head(records)>> ELSE <<>>)
       \o AtLevel(Tail(records), level)

\* ------------------------------------------------------------------------
\* Inputs

\* integer CPU percentages range over -NegCpu..MaxCpu
NegCpu == 3

MaxCpu == 102

\* floats, in tenths: -0.5, 69.9, 70.0, 84.9, 85.5
FloatSamples == {-5, 699, 700, 849, 855}

StrSamples ==
  { <<>>,
    <<"g","r","e","e","n">>, <<"G","r","e","e","n">>, <<"G","R","E","E","N">>,
    <<"y","e","l","l","o","w">>, <<"r","e","d">>,
    <<"u","n","k","n","o","w","n">>, <<"b","l","u","e">>,
    <<"a","v","a","i","l","a","b","l","e">>,
    <<"D","e","g","r","a","d","e","d">>, <<"d","e","g","r","a","d","e","d">>,
    <<"c","r","i","t","i","c","a","l">>,
    <<"u","n","a","v","a","i","l","a","b","l","e">>,
    <<"o","k">>,
    <<"7","5">>, <<" ","9","0"," ">>, <<"-","1">>, <<"7","_","0">>,
    <<"6","9",".","9">>, <<"a","b","c">>, <<"_","5">>,
    <<"\t","7","5">>, <<"7","5","\n">>, <<"U+00A0","9","0","U+000B">>,
    <<"U+0663">>, <<"U+FF17","5">>, <<"U+001C","7">>,
    <<"a","v","a","U+0131","l","a","b","l","e">>,
    <<"u","n","U+212A","n","o","w","n">>, <<"U+00DF">> }

\* values a status field can hold
LeafValues ==
  {JNull, JBool(TRUE), JBool(FALSE), JNaN, JInf, JNegInf, JList, JEmptyObj}
  \cup {JInt(i) : i \in (0 - NegCpu)..MaxCpu}
  \cup {JFloat(f) : f \in FloatSamples}
  \cup {JStr(str) : str \in StrSamples}

\* documents that follow a path of keys for some depth and end in a leaf value
RECURSIVE DocsAlong(_)
DocsAlong(path) ==
  IF Len(path) = 0 THEN LeafValues
  ELSE LeafValues \cup {JObj(Head(path), v) : v \in DocsAlong(Tail(path))}

ES_Path == <<"status">>

Kibana_Path == <<"status", "overall", "level">>

Logstash_Path == <<"process", "cpu", "percent">>

Docs == DocsAlong(ES_Path) \cup DocsAlong(Kibana_Path) \cup DocsAlong(Logstash_Path)

Bodies == {NotJsonBody} \cup {JsonBody(d) : d \in Docs}

\* statuses raise_for_status lets through, and statuses it raises for
PassStatuses == {200, 304}

ErrorStatuses == {400, 401, 403, 404, 500, 599}

\* exceptions of the requests library
RequestsExceptions ==
  {"ConnectionError", "ProxyError", "SSLError", "Timeout", "ReadTimeout",
   "ConnectTimeout", "TooManyRedirects", "InvalidURL", "JSONDecodeError"}

\* exceptions requests.request raises that are not of the library, such as
\* the ValueError for a timeout that is not positive
OtherExceptions == {"ValueError", "OSError"}

\* everything requests.request can do with the one request of a probe
TransportOutcomes ==
  {TransportResponse(c, b) : c \in PassStatuses, b \in Bodies}
  \cup {TransportResponse(c, NotJsonBody) : c \in ErrorStatuses}
  \cup {TransportRaise(cls, FALSE, 0) : cls \in RequestsExceptions}
  \cup {TransportRaise(cls, FALSE, 0) : cls \in OtherExceptions}
  \cup {TransportRaise("HTTPError", FALSE, 0)}
  \cup {TransportRaise("HTTPError", TRUE, c) : c \in ErrorStatuses}

\* --endpoint, --user and --password
Args(endpoint, user, password) ==
  [endpoint |-> endpoint, user |-> user, password |-> password]

\* an environment variable: unset, or set to a text
Unset == [set |-> FALSE, text |-> <<>>]

EnvVar(text) == [set |-> TRUE, text |-> text]

Environ(timeout, level) == [HTTP_TIMEOUT |-> timeout, LOG_LEVEL |-> level]

\* the command line and the environment of an invocation
Invocation(a, e) == [args |-> a, environ |-> e]

InvocationSamples ==
  { Invocation(Args(<<"h","t","t","p","s",":","/","/","e","s",":","9","2","0","0">>, <<"e","l","a","s","t","i","c">>, <<"c","h","a","n","g","e","m","e">>),
               Environ(Unset, Unset)),
    Invocation(Args(<<"h","t","t","p",":","/","/","1","0",".","0",".","0",".","5",":","5","6","0","1","/">>, <<"n","a","g","i","o","s">>, <<"s","3","c","r","3","t">>),
               Environ(EnvVar(<<"3","0">>), EnvVar(<<"d","e","b","u","g">>))),
    Invocation(Args(<<"h","t","t","p","s",":","/","/","e","s",":","9","2","0","0">>, <<"e","l","a","s","t","i","c">>, <<"c","h","a","n","g","e","m","e">>),
               Environ(EnvVar(<<"\t","7">>), EnvVar(<<"w","a","r","n">>))),
    Invocation(Args(<<"h","t","t","p","s",":","/","/","e","s",":","9","2","0","0">>, <<"e","l","a","s","t","i","c">>, <<"c","h","a","n","g","e","m","e">>),
               Environ(EnvVar(<<"a","b","c">>), Unset)),
    Invocation(Args(<<"h","t","t","p","s",":","/","/","e","s",":","9","2","0","0">>, <<"e","l","a","s","t","i","c">>, <<"c","h","a","n","g","e","m","e">>),
               Environ(Unset, EnvVar(<<"b","a","s","i","c","_","f","o","r","m","a","t">>))) }

\* click.Choice of --check
CheckChoices == {"elasticsearch", "kibana", "logstash"}

\* ------------------------------------------------------------------------
\* State

VARIABLES
  pc,                 \* position of check_service: idle, resolved, probed,
                      \* handled, exited, crashed
  runs,               \* invocations started so far
  check,              \* value of --check
  service_class,      \* class returned by get_service
  transport,          \* what requests.request did
  calls,              \* number of requests.request calls of this invocation
  driver_result,      \* what HttpDriver.request returned or raised
  status_result,      \* what get_status returned or raised
  service_status,     \* local variable of check_service
  custom_description, \* local variable of check_service
  exit_code,          \* exit status of the process
  output,             \* status line printed
  args,               \* --endpoint, --user, --password
  environ,            \* environment variables of the process
  sent,               \* the calls of requests.request of this invocation
  logs,               \* log records emitted by this invocation
  steps,              \* calls of get_service, get_status, check.main so far
  modules,            \* service modules imported so far
  subclasses,         \* BaseService.__subclasses__(), in definition order
  lib_call,           \* the last direct call of a library function
  lib_result          \* what that call returned or raised

libvars == <<modules, subclasses, lib_call, lib_result>>

mainvars == <<pc, runs, check, service_class, transport, calls, driver_result,
              status_result, service_status, custom_description, exit_code, output,
              args, environ, sent, logs, steps>>

vars == <<pc, runs, check, service_class, transport, calls, driver_result,
          status_result, service_status, custom_description, exit_code, output,
          args, environ, sent, logs, steps,
          modules, subclasses, lib_call, lib_result>>

\* a call of op with its arguments; the ones op does not take keep a default
LibCall(op, name, value, custom, resource) ==
  [op |-> op, name |-> name, value |-> value, custom |-> custom,
   resource |-> resource]

NoCall == LibCall("none", <<>>, 0, NoneDesc, "none")

NoLibResult == [kind |-> "none"]

NoTransport == TransportRaise("none", FALSE, 0)

NoDriverResult == DriverRaise(NoExc)

NoResult == [kind |-> "none", label |-> <<>>, exc |-> NoExc]

NoExit == -1

NoArgs == Args(<<>>, <<>>, <<>>)

NoEnviron == Environ(Unset, Unset)

NoSteps == [get_service |-> 0, get_status |-> 0, main |-> 0]

Init ==
  /\ pc = "idle"
  /\ runs = 0
  /\ check = "none"
  /\ service_class = "none"
  /\ transport = NoTransport
  /\ calls = 0
  /\ driver_result = NoDriverResult
  /\ status_result = NoResult
  /\ service_status = <<>>
  /\ custom_description = NoneDesc
  /\ exit_code = NoExit
  /\ output = NoOutput
  /\ args = NoArgs
  /\ environ = NoEnviron
  /\ sent = <<>>
  /\ logs = <<>>
  /\ steps = NoSteps
  /\ modules = {ProgramImports[i] : i \in 1..Len(ProgramImports)}
  /\ subclasses = ProgramSubclasses
  /\ lib_call = NoCall
  /\ lib_result = NoLibResult

\* check_service starting with an override message already set
Invoke_presetDescription(c, inv) ==
  /\ pc = "idle"
  /\ runs < MaxRuns
  /\ runs' = runs + 1
  /\ check' = c
  /\ args' = inv.args
  /\ environ' = inv.environ
  /\ LET loaded == /\ Config_HTTP_TIMEOUT(inv.environ).ok
                   /\ ConfiguredLevel(inv.environ).ok
         r == get_service(subclasses, c)
     IN
     IF ~loaded
     THEN /\ pc' = "crashed"
          /\ exit_code' = UncaughtExit
          /\ UNCHANGED <<service_class, steps>>
     ELSE /\ steps' = [steps EXCEPT !.get_service = @ + 1]
          /\ IF r.kind = "class"
             THEN /\ pc' = "resolved"
                  /\ service_class' = ClassOf(r.cls)
                  /\ UNCHANGED exit_code
             ELSE /\ pc' = "crashed"
                  /\ exit_code' = UncaughtExit
                  /\ UNCHANGED service_class
  /\ custom_description' = SomeDesc("An unexpected error occurred.")
  /\ UNCHANGED <<transport, calls, driver_result, status_result,
                 service_status, output, sent, logs>>
  /\ UNCHANGED libvars

\* the script is started: its imports run (src.lib.config and
\* src.lib.logging_config read the environment; an exception there ends the
\* process before check_service is called), then check_service lines 52-55
\* resolve the class and build the service; an exception of get_service is
\* not handled and ends the process
Invoke(c, inv) ==
  /\ pc = "idle"
  /\ runs < MaxRuns
  /\ runs' = runs + 1
  /\ check' = c
  /\ args' = inv.args
  /\ environ' = inv.environ
  /\ LET loaded == /\ Config_HTTP_TIMEOUT(inv.environ).ok
                   /\ ConfiguredLevel(inv.environ).ok
         r == get_service(subclasses, c)
     IN
     IF ~loaded
     THEN /\ pc' = "crashed"
          /\ exit_code' = UncaughtExit
          /\ UNCHANGED <<service_class, steps>>
     ELSE /\ steps' = [steps EXCEPT !.get_service = @ + 1]
          /\ IF r.kind = "class"
             THEN /\ pc' = "resolved"
                  /\ service_class' = ClassOf(r.cls)
                  /\ UNCHANGED exit_code
             ELSE /\ pc' = "crashed"
                  /\ exit_code' = UncaughtExit
                  /\ UNCHANGED service_class
  /\ custom_description' = NoneDesc
  /\ UNCHANGED <<transport, calls, driver_result, status_result,
                 service_status, output, sent, logs>>
  /\ UNCHANGED libvars

\* check_service line 58: service.get_status(), with the requests it sends
\* and the records it logs
GetStatus(tr) ==
  /\ pc = "resolved"
  /\ pc' = "probed"
  /\ transport' = tr
  /\ LET configured == Config_HTTP_TIMEOUT(environ).val.n
         reqs == ProbeRequests(service_class, args, configured, tr)
     IN /\ sent' = sent \o reqs
        /\ calls' = calls + Len(reqs)
        /\ logs' = logs \o AtLevel(GetStatusLog(service_class, args, configured, tr),
                                   ConfiguredLevel(environ).val.n)
  /\ steps' = [steps EXCEPT !.get_status = @ + 1]
  /\ driver_result' = DriverRequest(tr)
  /\ status_result' = get_status(service_class, DriverRequest(tr))
  /\ UNCHANGED <<runs, check, service_class, service_status,
                 custom_description, exit_code, output, args, environ>>
  /\ UNCHANGED libvars

\* check_service calling get_status again after an error it caught
Handle_retry ==
  /\ pc = "probed"
  /\ IF status_result.kind = "return"
     THEN /\ pc' = "handled"
          /\ service_status' = status_result.label
          /\ UNCHANGED <<custom_description, exit_code, logs>>
     ELSE IF ExceptClause(status_result.exc.cls).some
     THEN /\ pc' = "resolved"
          /\ service_status' = LabelUNKNOWN
          /\ custom_description' = ExceptClause(status_result.exc.cls)
          /\ logs' = logs \o AtLevel(OrchestratorLog(status_result.exc),
                                     ConfiguredLevel(environ).val.n)
          /\ UNCHANGED exit_code
     ELSE /\ pc' = "crashed"
          /\ exit_code' = UncaughtExit
          /\ UNCHANGED <<service_status, custom_description, logs>>
  /\ UNCHANGED <<runs, check, service_class, transport, calls, driver_result,
                 status_result, output, args, environ, sent, steps>>
  /\ UNCHANGED libvars

\* check_service lines 57-83: the assignment of the try block, or the except
\* clause that matches; an exception no clause matches ends the process
Handle ==
  /\ pc = "probed"
  /\ IF status_result.kind = "return"
     THEN /\ pc' = "handled"
          /\ service_status' = status_result.label
          /\ UNCHANGED <<custom_description, exit_code, logs>>
     ELSE IF ExceptClause(status_result.exc.cls).some
     THEN /\ pc' = "handled"
          /\ service_status' = LabelUNKNOWN
          /\ custom_description' = ExceptClause(status_result.exc.cls)
          /\ logs' = logs \o AtLevel(OrchestratorLog(status_result.exc),
                                     ConfiguredLevel(environ).val.n)
          /\ UNCHANGED exit_code
     ELSE /\ pc' = "crashed"
          /\ exit_code' = UncaughtExit
          /\ UNCHANGED <<service_status, custom_description, logs>>
  /\ UNCHANGED <<runs, check, service_class, transport, calls, driver_result,
                 status_result, output, args, environ, sent, steps>>
  /\ UNCHANGED libvars

\* check_service lines 85-90: build the Check and run it
Report ==
  /\ pc = "handled"
  /\ pc' = "exited"
  /\ exit_code' = CheckMain(service_status, custom_description).exit_code
  /\ output' = CheckMain(service_status, custom_description).output
  /\ logs' = logs \o AtLevel(ResourceLog(service_status), ConfiguredLevel(environ).val.n)
  /\ steps' = [steps EXCEPT !.main = @ + 1]
  /\ UNCHANGED <<runs, check, service_class, transport, calls, driver_result,
                 status_result, service_status, custom_description,
                 args, environ, sent>>
  /\ UNCHANGED libvars

\* the process has ended; the next invocation is a new process, which starts
\* with nothing of the one that ended
NextInvocation ==
  /\ pc \in {"exited", "crashed"}
  /\ runs < MaxRuns
  /\ pc' = "idle"
  /\ check' = "none"
  /\ service_class' = "none"
  /\ transport' = NoTransport
  /\ calls' = 0
  /\ driver_result' = NoDriverResult
  /\ status_result' = NoResult
  /\ service_status' = <<>>
  /\ custom_description' = NoneDesc
  /\ exit_code' = NoExit
  /\ output' = NoOutput
  /\ args' = NoArgs
  /\ environ' = NoEnviron
  /\ sent' = <<>>
  /\ logs' = <<>>
  /\ steps' = NoSteps
  /\ UNCHANGED runs
  /\ UNCHANGED libvars

Next ==
  \/ \E c \in CheckChoices, inv \in InvocationSamples : Invoke(c, inv)
  \/ \E tr \in TransportOutcomes : GetStatus(tr)
  \/ Handle
  \/ Report
  \/ NextInvocation

Spec == Init /\ [][Next]_vars

Ended == pc \in {"exited", "crashed"}

\* ------------------------------------------------------------------------
\* Direct calls of the library functions, as the unit tests make them

\* service names given to get_service
NameSamples ==
  { <<>>, <<"e","l","a","s","t","i","c","s","e","a","r","c","h">>, <<"E","L","A","S","T","I","C","S","E","A","R","C","H">>, <<"E","l","a","s","t","i","c","S","e","a","r","c","h">>,
    <<"k","i","b","a","n","a">>, <<"K","i","b","a","n","a">>, <<"K","I","B","A","N","A">>, <<"l","o","g","s","t","a","s","h">>, <<"L","o","g","S","t","a","s","h">>,
    <<"b","o","g","u","s">>, <<"i","n","v","a","l","i","d","_","s","e","r","v","i","c","e">>, <<"e","l","a","s","t","i","c","_","s","e","a","r","c","h">>,
    <<"k","i","b","a","n","a","S","e","r","v","i","c","e">>, <<"K","i","b","a","n","a","S","e","r","v","i","c","e">>,
    <<"S","e","r","v","i","c","e">>, <<" ","k","i","b","a","n","a">>,
    <<"U+212A","i","b","a","n","a">>, <<"k","U+0130","b","a","n","a">>,
    <<"l","o","g","U+017F","t","a","U+017F","h">> }

\* status strings given to ServiceHealthResource
StatusSamples ==
  Labels \cup
  { <<>>, <<"o","k">>, <<"O","k">>, <<"w","a","r","n","i","n","g">>, <<"W","a","r","n","i","n","g">>,
    <<"c","r","i","t","i","c","a","l">>, <<"u","n","k","n","o","w","n">>, <<"U","n","k","n","o","w","n">>,
    <<"g","r","e","e","n">>, <<"O","K"," ">>, <<"O"," ","K">>,
    <<"w","a","r","n","U+0131","n","g">>, <<"c","r","U+0131","t","U+0131","c","a","l">>,
    <<"u","n","U+212A","n","o","w","n">>, <<"U+FB01">> }

\* metric values range over -MaxMetric..MaxMetric
MaxMetric == 5

MetricValues == (0 - MaxMetric)..MaxMetric

\* custom descriptions given to ServiceHealthContext
CustomSamples ==
  {NoneDesc, SomeDesc(""), SomeDesc("Custom OK Message"),
   SomeDesc("Service is up."), SomeDesc("No status available")}

\* the resource argument of evaluate and performance
ResourceSamples == {"None", "ServiceHealthResource"}

\* import src.services.<m>: a module already imported is not run again; a
\* module whose imports fail raises ImportError before its class statement
ImportModule(m) ==
  /\ lib_call' = LibCall("import", <<>>, 0, NoneDesc, m)
  /\ IF m \in modules
     THEN /\ lib_result' = [kind |-> "imported"]
          /\ UNCHANGED <<modules, subclasses>>
     ELSE IF ImportSucceeds(m)
     THEN /\ lib_result' = [kind |-> "imported"]
          /\ modules' = modules \cup {m}
          /\ subclasses' = Append(subclasses, ModuleClass(m))
     ELSE /\ lib_result' = [kind |-> "raise", exc |-> "ImportError"]
          /\ UNCHANGED <<modules, subclasses>>
  /\ UNCHANGED mainvars

\* BaseService.get_service(name)
Resolve(name) ==
  /\ lib_call' = LibCall("get_service", name, 0, NoneDesc, "none")
  /\ lib_result' = BaseService_get_service(subclasses, name)
  /\ UNCHANGED <<modules, subclasses>>
  /\ UNCHANGED mainvars

\* ServiceHealthContext(custom_description=custom).evaluate(metric, resource)
CallEvaluate(custom, value, resource) ==
  /\ lib_call' = LibCall("evaluate", <<>>, value, custom, resource)
  /\ lib_result' = [kind |-> "state", state |-> evaluate(value)]
  /\ UNCHANGED <<modules, subclasses>>
  /\ UNCHANGED mainvars

\* ServiceHealthContext(custom_description=custom).describe(metric)
CallDescribe(custom, value) ==
  /\ lib_call' = LibCall("describe", <<>>, value, custom, "none")
  /\ lib_result' = [kind |-> "text", text |-> describe(custom, value)]
  /\ UNCHANGED <<modules, subclasses>>
  /\ UNCHANGED mainvars

\* ServiceHealthContext(custom_description=custom).performance(metric, resource)
CallPerformance(custom, value, resource) ==
  /\ lib_call' = LibCall("performance", <<>>, value, custom, resource)
  /\ lib_result' = [kind |-> "perf", chars |-> performance(value)]
  /\ UNCHANGED <<modules, subclasses>>
  /\ UNCHANGED mainvars

\* ServiceHealthResource(status).probe()
CallProbe(status) ==
  /\ lib_call' = LibCall("probe", status, 0, NoneDesc, "none")
  /\ lib_result' = Resource_probe(status)
  /\ UNCHANGED <<modules, subclasses>>
  /\ UNCHANGED mainvars

\* the timeout keyword a caller of HttpDriver.request may pass
TimeoutSamples == {NoKw, KwNone, KwInt(1), KwInt(10)}

\* the values of HTTP_TIMEOUT in the environment
EnvSamples ==
  {Environ(Unset, Unset), Environ(EnvVar(<<"3","0">>), Unset), Environ(EnvVar(<<" ","7"," ">>), Unset),
   Environ(EnvVar(<<"\n","1","2","\r">>), Unset),
   Environ(EnvVar(<<"a","b","c">>), Unset), Environ(EnvVar(<<>>), Unset),
   Environ(EnvVar(<<"5",".","5">>), Unset)}

\* HttpDriver().request("GET", url, timeout=...) in a process with this
\* environment
CallRequest(timeout, env) ==
  /\ lib_call' = [op |-> "request", name |-> <<>>, value |-> 0, custom |-> NoneDesc,
                  resource |-> "none", timeout |-> timeout, environ |-> env]
  /\ lib_result' =
       LET url == <<"h","t","t","p","s",":","/","/","a","p","i",".","e","x","a","m","p","l","e",".","c","o","m","/","d","a","t","a">>
           req == Request("GET", url, <<>>, <<>>, TRUE, timeout)
       IN IF Config_HTTP_TIMEOUT(env).ok
          THEN [kind |-> "sent",
                request |-> DriverSend(req, Config_HTTP_TIMEOUT(env).val.n),
                exc |-> "none"]
          ELSE [kind |-> "raise", request |-> req,
                exc |-> Config_HTTP_TIMEOUT(env).exc]
  /\ UNCHANGED <<modules, subclasses>>
  /\ UNCHANGED mainvars

NextLib ==
  \/ \E m \in ServiceModules : ImportModule(m)
  \/ \E name \in NameSamples : Resolve(name)
  \/ \E c \in CustomSamples, v \in MetricValues, r \in ResourceSamples :
       CallEvaluate(c, v, r)
  \/ \E c \in CustomSamples, v \in MetricValues : CallDescribe(c, v)
  \/ \E c \in CustomSamples, v \in MetricValues, r \in ResourceSamples :
       CallPerformance(c, v, r)
  \/ \E st \in StatusSamples : CallProbe(st)
  \/ \E t \in TimeoutSamples, e \in EnvSamples : CallRequest(t, e)

SpecLib == Init /\ [][NextLib]_vars

\* ------------------------------------------------------------------------
\* Properties

\* get_status has run in the current invocation
Probed == pc \in {"probed", "handled", "exited", "crashed"}

\* get_status got a response whose body parsed to a JSON object
GotObject ==
  /\ Probed
  /\ driver_result.kind = "response"
  /\ driver_result.body.valid
  /\ driver_result.body.doc.t = "obj"

Doc == driver_result.body.doc

Raised(cls) == status_result.kind = "raise" /\ status_result.exc.cls = cls

Returned(label) == status_result.kind = "return" /\ status_result.label = label

\* exit code and default message of each label, as the interface documents them
ExpectedCode(label) ==
  CASE label = LabelOK       -> 0
    [] label = LabelWARNING  -> 1
    [] label = LabelCRITICAL -> 2
    [] label = LabelUNKNOWN  -> 3

ExpectedDefault(label) ==
  CASE label = LabelOK       -> "Service is up."
    [] label = LabelWARNING  -> "Potential issue detected, investigate soon."
    [] label = LabelCRITICAL ->
         "Service is in a critical state. Action needed immediately!"
    [] label = LabelUNKNOWN  ->
         "Service state is unknown, please check the configuration or logs."

\* C1: when get_status returns one of the four labels, the run ends by exiting
\* with the label's code 0, 1, 2, 3 and prints '<label> - <default message>';
\* no override message is used.
C1_SuccessExit ==
  (Ended /\ status_result.kind = "return") =>
    /\ status_result.label \in Labels
    /\ pc = "exited"
    /\ exit_code = ExpectedCode(status_result.label)
    /\ output.printed
    /\ output.word = status_result.label
    /\ output.summary = ExpectedDefault(status_result.label)
    /\ ~custom_description.some

C1_Witness ==
  /\ pc = "exited"
  /\ check = "kibana"
  /\ Returned(LabelWARNING)
  /\ exit_code = 1
  /\ output.summary = "Potential issue detected, investigate soon."

DriverErrors ==
  {"HttpConnectionError", "HttpTimeoutError", "HttpAuthenticationError",
   "HttpStatusError", "HttpUnexpectedError"}

ExpectedOverride(cls) ==
  CASE cls = "HttpConnectionError"     -> "Unable to connect to the service."
    [] cls = "HttpTimeoutError"        -> "Service request timed out."
    [] cls = "HttpAuthenticationError" -> "Authentication failed for the service."
    [] cls = "HttpStatusError"         -> "An HTTP status error occurred."
    [] cls = "HttpUnexpectedError"     -> "An unexpected error occurred."

\* C2: when get_status raises one of the five typed driver errors, the run
\* reports UNKNOWN, exits with code 3 and prints the error's fixed message.
C2_DriverErrorReported ==
  (Ended /\ status_result.kind = "raise" /\ status_result.exc.cls \in DriverErrors) =>
    /\ pc = "exited"
    /\ service_status = LabelUNKNOWN
    /\ exit_code = 3
    /\ output.printed
    /\ output.word = LabelUNKNOWN
    /\ output.summary = ExpectedOverride(status_result.exc.cls)

C2_Witness ==
  /\ pc = "exited"
  /\ Raised("HttpTimeoutError")
  /\ exit_code = 3
  /\ output.summary = "Service request timed out."

DomainErrors == {"InvalidHealthStatusError", "StatusFormatError"}

\* C3: when get_status raises InvalidHealthStatusError or StatusFormatError,
\* the error does not escape check_service: the run reports UNKNOWN and exits
\* with code 3.
C3_DomainErrorReported ==
  (Ended /\ status_result.kind = "raise" /\ status_result.exc.cls \in DomainErrors) =>
    /\ pc = "exited"
    /\ output.word = LabelUNKNOWN
    /\ exit_code = 3

\* C4: every exception HttpDriver.request raises is caught by check_service
\* and reported as UNKNOWN, exit code 3, with one of the override messages.
C4_DriverFailureCaught ==
  (Ended /\ driver_result.kind = "raise") =>
    /\ pc = "exited"
    /\ exit_code = 3
    /\ custom_description.some
    /\ \E cls \in DriverErrors : custom_description.text = ExpectedOverride(cls)

\* C5: for every probe and every response the driver returns, get_status
\* returns one of the four labels or raises InvalidHealthStatusError or
\* StatusFormatError; no other exception escapes.
C5_LabelOrDomainError ==
  (Probed /\ driver_result.kind = "response") =>
    \/ status_result.kind = "return" /\ status_result.label \in Labels
    \/ status_result.kind = "raise" /\ status_result.exc.cls \in DomainErrors

\* the Elasticsearch probe read a response object whose status is a string
ES_StatusString ==
  /\ GotObject
  /\ service_class = "ElasticsearchService"
  /\ HasKey(Doc, "status")
  /\ ValueAt(Doc, "status").t = "str"

\* two strings are equal when letter case is ignored, each taken to upper case
SameUpper(a, b) == StrUpper(a) = StrUpper(b)

\* two strings are equal when letter case is ignored, each taken to lower case
SameLower(a, b) == StrLower(a) = StrLower(b)

\* C6 as stated: green, yellow, red, unknown map to OK, WARNING, CRITICAL,
\* UNKNOWN and every other status string raises InvalidHealthStatusError.
C6_Original ==
  ES_StatusString =>
    LET st == ValueAt(Doc, "status").s IN
    /\ st = <<"g","r","e","e","n">> => Returned(LabelOK)
    /\ st = <<"y","e","l","l","o","w">> => Returned(LabelWARNING)
    /\ st = <<"r","e","d">> => Returned(LabelCRITICAL)
    /\ st = <<"u","n","k","n","o","w","n">> => Returned(LabelUNKNOWN)
    /\ st \notin { <<"g","r","e","e","n">>, <<"y","e","l","l","o","w">>,
                   <<"r","e","d">>, <<"u","n","k","n","o","w","n">> }
         => Raised("InvalidHealthStatusError")

\* C6, amended: a status string equal, ignoring letter case, to green, yellow,
\* red, unknown maps to OK, WARNING, CRITICAL, UNKNOWN; every other status
\* string raises InvalidHealthStatusError and no label is returned.
C6_CaseInsensitiveMapping ==
  ES_StatusString =>
    LET st == ValueAt(Doc, "status").s IN
    /\ SameUpper(st, <<"g","r","e","e","n">>) => Returned(LabelOK)
    /\ SameUpper(st, <<"y","e","l","l","o","w">>) => Returned(LabelWARNING)
    /\ SameUpper(st, <<"r","e","d">>) => Returned(LabelCRITICAL)
    /\ SameUpper(st, <<"u","n","k","n","o","w","n">>) => Returned(LabelUNKNOWN)
    /\ (\A w \in { <<"g","r","e","e","n">>, <<"y","e","l","l","o","w">>,
                   <<"r","e","d">>, <<"u","n","k","n","o","w","n">> } :
          ~SameUpper(st, w))
         => Raised("InvalidHealthStatusError")

C6_Witness ==
  /\ ES_StatusString
  /\ ValueAt(Doc, "status").s = <<"b","l","u","e">>
  /\ Raised("InvalidHealthStatusError")

\* C7: for a response object, ElasticsearchService.get_status raises
\* InvalidHealthStatusError when the status key is absent and StatusFormatError
\* when the status is null or any other non-string value.
C7_MissingOrMalformedStatus ==
  (GotObject /\ service_class = "ElasticsearchService") =>
    /\ ~HasKey(Doc, "status") => Raised("InvalidHealthStatusError")
    /\ (HasKey(Doc, "status") /\ ValueAt(Doc, "status").t # "str")
         => Raised("StatusFormatError")

C7_Witness ==
  /\ GotObject
  /\ service_class = "ElasticsearchService"
  /\ HasKey(Doc, "status")
  /\ ValueAt(Doc, "status") = JNull
  /\ Raised("StatusFormatError")

\* the objects the Kibana probe walks through, as far as they exist
K_HasStatus == GotObject /\ HasKey(Doc, "status")

K_Status == ValueAt(Doc, "status")

K_HasOverall == K_HasStatus /\ HasKey(K_Status, "overall")

K_Overall == ValueAt(K_Status, "overall")

K_HasLevel == K_HasOverall /\ HasKey(K_Overall, "level")

K_Level == ValueAt(K_Overall, "level")

\* one of the keys status, overall, level is absent from the object that
\* should hold it
K_KeyAbsent ==
  /\ GotObject
  /\ \/ ~HasKey(Doc, "status")
     \/ K_HasStatus /\ K_Status.t = "obj" /\ ~HasKey(K_Status, "overall")
     \/ K_HasOverall /\ K_Overall.t = "obj" /\ ~HasKey(K_Overall, "level")

KibanaWords ==
  { <<"a","v","a","i","l","a","b","l","e">>, <<"d","e","g","r","a","d","e","d">>,
    <<"c","r","i","t","i","c","a","l">>,
    <<"u","n","a","v","a","i","l","a","b","l","e">> }

\* C8 as stated: available, degraded, critical, unavailable map to OK, WARNING,
\* CRITICAL, UNKNOWN; an absent key or any other level string raises
\* InvalidHealthStatusError; a null or non-string level raises StatusFormatError.
C8_Original ==
  (Probed /\ service_class = "KibanaService") =>
    /\ K_KeyAbsent => Raised("InvalidHealthStatusError")
    /\ (K_HasLevel /\ K_Level.t # "str") => Raised("StatusFormatError")
    /\ (K_HasLevel /\ K_Level.t = "str") =>
         /\ K_Level.s = <<"a","v","a","i","l","a","b","l","e">> => Returned(LabelOK)
         /\ K_Level.s = <<"d","e","g","r","a","d","e","d">> => Returned(LabelWARNING)
         /\ K_Level.s = <<"c","r","i","t","i","c","a","l">> => Returned(LabelCRITICAL)
         /\ K_Level.s = <<"u","n","a","v","a","i","l","a","b","l","e">>
              => Returned(LabelUNKNOWN)
         /\ K_Level.s \notin KibanaWords => Raised("InvalidHealthStatusError")

\* C8, amended: a level equal, ignoring letter case, to available, degraded,
\* critical, unavailable maps to OK, WARNING, CRITICAL, UNKNOWN; an absent key
\* or any other level string raises InvalidHealthStatusError; a null or
\* non-string level raises StatusFormatError.
C8_KibanaMapping ==
  (Probed /\ service_class = "KibanaService") =>
    /\ K_KeyAbsent => Raised("InvalidHealthStatusError")
    /\ (K_HasLevel /\ K_Level.t # "str") => Raised("StatusFormatError")
    /\ (K_HasLevel /\ K_Level.t = "str") =>
         /\ SameUpper(K_Level.s, <<"a","v","a","i","l","a","b","l","e">>)
              => Returned(LabelOK)
         /\ SameUpper(K_Level.s, <<"d","e","g","r","a","d","e","d">>)
              => Returned(LabelWARNING)
         /\ SameUpper(K_Level.s, <<"c","r","i","t","i","c","a","l">>)
              => Returned(LabelCRITICAL)
         /\ SameUpper(K_Level.s, <<"u","n","a","v","a","i","l","a","b","l","e">>)
              => Returned(LabelUNKNOWN)
         /\ (\A w \in KibanaWords : ~SameUpper(K_Level.s, w))
              => Raised("InvalidHealthStatusError")

C8_Witness ==
  /\ Probed
  /\ service_class = "KibanaService"
  /\ K_HasLevel
  /\ K_Level = JStr(<<"u","n","a","v","a","i","l","a","b","l","e">>)
  /\ Returned(LabelUNKNOWN)

\* the objects the Logstash probe walks through, as far as they exist
L_HasProcess == GotObject /\ HasKey(Doc, "process")

L_Process == ValueAt(Doc, "process")

L_HasCpu == L_HasProcess /\ HasKey(L_Process, "cpu")

L_Cpu == ValueAt(L_Process, "cpu")

L_HasPercent == L_HasCpu /\ HasKey(L_Cpu, "percent")

L_Percent == ValueAt(L_Cpu, "percent")

\* C9: for every integer CPU percent x, negative and above 100 included,
\* LogstashService.get_status returns OK if x < 70, WARNING if 70 <= x < 85,
\* CRITICAL if x >= 85; it never returns UNKNOWN, whatever the response.
C9_CpuBands ==
  (Probed /\ service_class = "LogstashService") =>
    /\ ~Returned(LabelUNKNOWN)
    /\ (L_HasPercent /\ L_Percent.t = "int") =>
         /\ L_Percent.n < 70 => Returned(LabelOK)
         /\ (70 <= L_Percent.n /\ L_Percent.n < 85) => Returned(LabelWARNING)
         /\ L_Percent.n >= 85 => Returned(LabelCRITICAL)

C9_Witness ==
  /\ Probed
  /\ service_class = "LogstashService"
  /\ L_HasPercent
  /\ L_Percent = JInt(70)
  /\ Returned(LabelWARNING)

\* one of the keys process, cpu, percent is absent from the object that should
\* hold it
L_KeyAbsent ==
  /\ GotObject
  /\ \/ ~HasKey(Doc, "process")
     \/ L_HasProcess /\ L_Process.t = "obj" /\ ~HasKey(L_Process, "cpu")
     \/ L_HasCpu /\ L_Cpu.t = "obj" /\ ~HasKey(L_Cpu, "percent")

\* values int() converts: integers, booleans, finite floats, integer literals
CoercesToInt(v) ==
  \/ v.t \in {"int", "bool", "float"}
  \/ v.t = "str" /\ StrIsInt(v.s)

\* C10: LogstashService.get_status raises InvalidHealthStatusError, and returns
\* no label, when one of the keys process, cpu, percent is absent or when the
\* percent value is non-numeric or fails integer coercion.
C10_CoercionFailureIsDomainError ==
  (Probed /\ service_class = "LogstashService") =>
    /\ L_KeyAbsent => Raised("InvalidHealthStatusError")
    /\ (L_HasPercent /\ ~CoercesToInt(L_Percent))
         => Raised("InvalidHealthStatusError")

\* ------------------------------------------------------------------------
\* Registry and reporter functions called directly

\* the last call was get_service(name)
Resolving == lib_call.op = "get_service"

Key_elasticsearch == <<"e","l","a","s","t","i","c","s","e","a","r","c","h">>

Key_kibana == <<"k","i","b","a","n","a">>

Key_logstash == <<"l","o","g","s","t","a","s","h">>

\* the message of ServiceNotFoundError for a name, written out
NotRecognized(name) ==
  <<"E","R","R","O","R",":"," ","S","e","r","v","i","c","e"," ","'">> \o name \o <<"'"," ","n","o","t"," ","r","e","c","o","g","n","i","z","e","d","!">>

\* C11: get_service returns the ElasticsearchService, KibanaService or
\* LogstashService class for every name equal, ignoring case, to elasticsearch,
\* kibana or logstash, and for every other name raises ServiceNotFoundError
\* whose message carries the name exactly as it was given.  Names are
\* compared in lower case, the case of the registry keys.
C11_ResolveIgnoringCase ==
  Resolving =>
    LET name == lib_call.name IN
    /\ SameLower(name, Key_elasticsearch)
         => lib_result.kind = "class" /\ lib_result.cls = Class_Elasticsearch
    /\ SameLower(name, Key_kibana)
         => lib_result.kind = "class" /\ lib_result.cls = Class_Kibana
    /\ SameLower(name, Key_logstash)
         => lib_result.kind = "class" /\ lib_result.cls = Class_Logstash
    /\ (\A k \in {Key_elasticsearch, Key_kibana, Key_logstash} :
          ~SameLower(name, k))
         => /\ lib_result.kind = "raise"
            /\ lib_result.exc = "ServiceNotFoundError"
            /\ lib_result.msg = NotRecognized(name)

C11_Witness ==
  /\ Resolving
  /\ lib_call.name = <<"E","L","A","S","T","I","C","S","E","A","R","C","H">>
  /\ lib_result.kind = "class"
  /\ lib_result.cls = Class_Elasticsearch

\* the key the naming convention gives each class: its name without 'Service',
\* in lower case
ConventionKey(cls) ==
  CASE cls = Class_Elasticsearch -> Key_elasticsearch
    [] cls = Class_Kibana        -> Key_kibana
    [] cls = Class_Logstash      -> Key_logstash
    [] cls = Class_ElasticSearch -> Key_elasticsearch

\* C12: every class that directly subclasses BaseService is found under its
\* own key, the class name without 'Service' in lower case: the keys of the
\* registered classes are pairwise distinct and get_service of a class's key
\* returns that class, never another one.
C12_EverySubclassDiscoverable ==
  /\ \A i, j \in DOMAIN subclasses :
       i # j => ConventionKey(subclasses[i]) # ConventionKey(subclasses[j])
  /\ Resolving =>
       \A i \in DOMAIN subclasses :
         lib_call.name = ConventionKey(subclasses[i])
           => lib_result.kind = "class" /\ lib_result.cls = subclasses[i]

C12_Witness ==
  /\ Resolving
  /\ Len(subclasses) = 3
  /\ \E i \in DOMAIN subclasses :
       /\ subclasses[i] = Class_Logstash
       /\ lib_call.name = ConventionKey(subclasses[i])
       /\ lib_result.cls = subclasses[i]

\* the last call was ServiceHealthContext.evaluate / describe / performance
Evaluating == lib_call.op = "evaluate"

Describing == lib_call.op = "describe"

Performing == lib_call.op = "performance"

\* the severity codes the context knows
SeverityCodes == 0..3

\* C13: for the metric values 0, 1, 2, 3 evaluate returns Ok, Warn, Critical,
\* Unknown, and describe without a custom description returns the fixed
\* message of the value.
C13_EvaluateAndDescribe ==
  /\ Evaluating =>
       /\ lib_call.value = 0 => lib_result.state = "Ok"
       /\ lib_call.value = 1 => lib_result.state = "Warn"
       /\ lib_call.value = 2 => lib_result.state = "Critical"
       /\ lib_call.value = 3 => lib_result.state = "Unknown"
  /\ (Describing /\ ~lib_call.custom.some) =>
       /\ lib_call.value = 0 => lib_result.text = "Service is up."
       /\ lib_call.value = 1
            => lib_result.text = "Potential issue detected, investigate soon."
       /\ lib_call.value = 2
            => lib_result.text =
                 "Service is in a critical state. Action needed immediately!"
       /\ lib_call.value = 3
            => lib_result.text =
                 "Service state is unknown, please check the configuration or logs."

C13_Witness ==
  /\ Describing
  /\ ~lib_call.custom.some
  /\ lib_call.value = 3
  /\ lib_result.text =
       "Service state is unknown, please check the configuration or logs."

\* C14: when a custom description was supplied, the empty string included,
\* describe returns it verbatim for every metric value, recognized or not.
C14_CustomDescriptionVerbatim ==
  (Describing /\ lib_call.custom.some) =>
    lib_result.text = lib_call.custom.text

C14_Witness ==
  /\ Describing
  /\ lib_call.custom = SomeDesc("")
  /\ lib_call.value \in SeverityCodes
  /\ lib_result.text = ""

\* C15: for a metric value outside 0..3 evaluate returns Unknown, and describe
\* without a custom description returns the one fallback text.
C15_UnrecognizedValue ==
  /\ (Evaluating /\ lib_call.value \notin SeverityCodes)
       => lib_result.kind = "state" /\ lib_result.state = "Unknown"
  /\ (Describing /\ ~lib_call.custom.some /\ lib_call.value \notin SeverityCodes)
       => lib_result.kind = "text" /\ lib_result.text = "No status available"

C15_Witness ==
  /\ Evaluating
  /\ lib_call.value = -1
  /\ lib_result.state = "Unknown"

\* C16: for the metric values 0, 1, 2, 3 performance returns the text
\* service_status=<value>, whatever the custom description and the resource.
C16_PerformanceText ==
  Performing =>
    /\ lib_call.value = 0 => lib_result.chars = <<"s","e","r","v","i","c","e","_","s","t","a","t","u","s","=","0">>
    /\ lib_call.value = 1 => lib_result.chars = <<"s","e","r","v","i","c","e","_","s","t","a","t","u","s","=","1">>
    /\ lib_call.value = 2 => lib_result.chars = <<"s","e","r","v","i","c","e","_","s","t","a","t","u","s","=","2">>
    /\ lib_call.value = 3 => lib_result.chars = <<"s","e","r","v","i","c","e","_","s","t","a","t","u","s","=","3">>

C16_Witness ==
  /\ Performing
  /\ lib_call.custom = SomeDesc("Custom OK Message")
  /\ lib_call.resource = "ServiceHealthResource"
  /\ lib_call.value = 2
  /\ lib_result.chars = <<"s","e","r","v","i","c","e","_","s","t","a","t","u","s","=","2">>

\* the last call was ServiceHealthResource(status).probe()
Probing == lib_call.op = "probe"

\* the one metric probe returns for a code
OneMetric(code) ==
  /\ lib_result.kind = "metric"
  /\ lib_result.count = 1
  /\ lib_result.name = "service_status"
  /\ lib_result.context = "service_health"
  /\ lib_result.value = code

\* C17: probe returns exactly one metric named service_status in context
\* service_health whose value is 0, 1, 2, 3 for the labels OK, WARNING,
\* CRITICAL, UNKNOWN in any letter case, and raises InvalidNagiosStateError
\* carrying the label for every other string.  Labels are compared in upper
\* case, the case of the four labels.
C17_ProbeMetric ==
  Probing =>
    LET status == lib_call.name IN
    /\ SameUpper(status, LabelOK) => OneMetric(0)
    /\ SameUpper(status, LabelWARNING) => OneMetric(1)
    /\ SameUpper(status, LabelCRITICAL) => OneMetric(2)
    /\ SameUpper(status, LabelUNKNOWN) => OneMetric(3)
    /\ (\A l \in Labels : ~SameUpper(status, l))
         => /\ lib_result.kind = "raise"
            /\ lib_result.exc.cls = "InvalidNagiosStateError"
            /\ lib_result.arg = status

C17_Witness ==
  /\ Probing
  /\ lib_call.name = <<"W","a","r","n","i","n","g">>
  /\ OneMetric(1)

\* ------------------------------------------------------------------------
\* The driver's classification of what the transport did

\* the transport raised an exception of class cls or of a subclass of it
TransportRaised(cls) ==
  transport.kind = "raise" /\ cls \in RequestsMro(transport.exc)

\* the transport produced a response with this status, returned by
\* requests.request or carried by the HTTPError it raised
ResponseStatus(code) ==
  /\ transport.kind = "response" \/ (TransportRaised("HTTPError") /\ transport.has_response)
  /\ transport.status_code = code

\* HttpDriver.request raised exactly this class
DriverRaised(cls) ==
  driver_result.kind = "raise" /\ driver_result.exc.cls = cls

\* an exception of the transport that is no connection error, no timeout and
\* no HTTPError
OtherTransportError ==
  /\ transport.kind = "raise"
  /\ ~TransportRaised("ConnectionError")
  /\ ~TransportRaised("Timeout")
  /\ ~TransportRaised("HTTPError")

\* an HTTPError that carries no response: it has no status, so it is neither
\* the authentication case nor the status case
HTTPErrorWithoutResponse ==
  /\ TransportRaised("HTTPError")
  /\ ~transport.has_response

\* C18 as stated: a connection failure raises HttpConnectionError, a 401
\* raises HttpAuthenticationError, every transport exception outside the
\* connection, timeout, authentication and status cases raises
\* HttpUnexpectedError, and everything raised is an HttpDriverException.
C18_Original ==
  Probed =>
    /\ TransportRaised("ConnectionError") => DriverRaised("HttpConnectionError")
    /\ ResponseStatus(401) => DriverRaised("HttpAuthenticationError")
    /\ (OtherTransportError \/ HTTPErrorWithoutResponse)
         => DriverRaised("HttpUnexpectedError")
    /\ driver_result.kind = "raise"
         => IsInstance(driver_result.exc.cls, "HttpDriverException")

\* the transport raised an exception that is not of the requests library
NotOfLibrary ==
  transport.kind = "raise" /\ ~TransportRaised("RequestException")

\* C18: a connection failure raises HttpConnectionError, a 401 raises
\* HttpAuthenticationError, every other exception of the requests library
\* that is no connection error, timeout or HTTPError raises
\* HttpUnexpectedError, an HTTPError that carries no response raises the base
\* HttpDriverException itself, an exception that is not of the requests
\* library leaves the driver as it is, and everything else the driver raises
\* is an HttpDriverException.
C18_DriverTaxonomy ==
  Probed =>
    /\ TransportRaised("ConnectionError") => DriverRaised("HttpConnectionError")
    /\ ResponseStatus(401) => DriverRaised("HttpAuthenticationError")
    /\ (OtherTransportError /\ ~NotOfLibrary) => DriverRaised("HttpUnexpectedError")
    /\ HTTPErrorWithoutResponse
         => /\ DriverRaised("HttpDriverException")
            /\ driver_result.exc.msg = "HTTP error occurred"
    /\ NotOfLibrary => DriverRaised(transport.exc)
    /\ (driver_result.kind = "raise" /\ ~NotOfLibrary)
         => IsInstance(driver_result.exc.cls, "HttpDriverException")

C18_Witness ==
  /\ Probed
  /\ HTTPErrorWithoutResponse
  /\ DriverRaised("HttpDriverException")

\* C19: whenever the transport raises a timeout exception, while connecting or
\* while reading, HttpDriver.request raises HttpTimeoutError and no other
\* driver error.
C19_TimeoutIsTimeoutError ==
  (Probed /\ TransportRaised("Timeout")) => DriverRaised("HttpTimeoutError")

\* the 2xx success range
Is2xx(code) == 200 <= code /\ code < 300

\* the client and server error ranges
Is4xx5xx(code) == 400 <= code /\ code < 600

\* the transport produced a response, with whatever status
HasStatus ==
  transport.kind = "response" \/ (TransportRaised("HTTPError") /\ transport.has_response)

\* HttpStatusError whose message ends with the status code
StatusErrorWithCode ==
  /\ DriverRaised("HttpStatusError")
  /\ driver_result.exc.msg = "HTTP error occurred: "
  /\ driver_result.exc.code = transport.status_code

\* C20 as stated: the response is returned only when its status is 2xx, and
\* every non-2xx status other than 401 raises HttpStatusError with the code.
C20_Original ==
  Probed =>
    /\ driver_result.kind = "response" => Is2xx(transport.status_code)
    /\ (HasStatus /\ ~Is2xx(transport.status_code) /\ transport.status_code # 401)
         => StatusErrorWithCode

\* C20: the response is returned only when its status is neither 4xx nor 5xx,
\* and every 4xx or 5xx status other than 401 raises HttpStatusError whose
\* message includes the status code.
C20_StatusErrors ==
  Probed =>
    /\ driver_result.kind = "response"
         => /\ transport.kind = "response"
            /\ ~Is4xx5xx(transport.status_code)
            /\ driver_result.status_code = transport.status_code
    /\ (HasStatus /\ Is4xx5xx(transport.status_code) /\ transport.status_code # 401)
         => StatusErrorWithCode

C20_Witness ==
  /\ Probed
  /\ transport.kind = "response"
  /\ transport.status_code = 404
  /\ StatusErrorWithCode

\* ------------------------------------------------------------------------
\* The request of a probe and its timeout

\* get_status has been called in this invocation
Called == steps.get_status = 1

\* C21: each call of get_status issues exactly one transport request, after
\* a success and after every failure alike; nothing is sent before the call
\* and nothing is sent again after it.
C21_OneRequest ==
  /\ steps.get_status = 0 => (Len(sent) = 0 /\ calls = 0)
  /\ Called => (Len(sent) = 1 /\ calls = 1)

C21_Witness ==
  /\ Called
  /\ transport.kind = "raise"
  /\ status_result.kind = "raise"
  /\ Len(sent) = 1

\* the status path of each service, written out
PathOf(cls) ==
  CASE cls = "ElasticsearchService" -> <<"/","_","h","e","a","l","t","h","_","r","e","p","o","r","t">>
    [] cls = "KibanaService"        -> <<"/","a","p","i","/","s","t","a","t","u","s">>
    [] cls = "LogstashService"      -> <<"/","_","n","o","d","e","/","s","t","a","t","s","/","p","r","o","c","e","s","s">>

\* C22: the request a probe issues is a GET to base_endpoint followed by the
\* fixed status path of the service, with the user and the password as basic
\* auth and certificate verification off, whatever the transport then does.
C22_RequestShape ==
  Called =>
    \A i \in DOMAIN sent :
      /\ sent[i].method = "GET"
      /\ sent[i].url = args.endpoint \o PathOf(service_class)
      /\ sent[i].user = args.user
      /\ sent[i].password = args.password
      /\ sent[i].verify = FALSE

C22_Witness ==
  /\ Called
  /\ service_class = "KibanaService"
  /\ transport.kind = "raise"
  /\ Len(sent) = 1
  /\ sent[1].url = <<"h","t","t","p",":","/","/","1","0",".","0",".","0",".","5",":","5","6","0","1","/","/","a","p","i","/","s","t","a","t","u","s">>
  /\ sent[1].user = <<"n","a","g","i","o","s">>

\* the last call was HttpDriver.request, in a process whose configuration
\* could be loaded
Requesting == lib_call.op = "request" /\ lib_result.kind = "sent"

\* HTTP_TIMEOUT as an integer: the variable when it is set, 5 otherwise
ConfiguredTimeout(env) ==
  IF ~env.HTTP_TIMEOUT.set THEN 5
  ELSE IF env.HTTP_TIMEOUT.text = <<"3","0">> THEN 30
  ELSE IF env.HTTP_TIMEOUT.text = <<"\n","1","2","\r">> THEN 12
  ELSE IF env.HTTP_TIMEOUT.text = <<"\t","7">> THEN 7
  ELSE 7

\* the request went out with a number as its timeout
HasTimeout(req) == req.timeout.given /\ ~req.timeout.none

\* C23 as stated: the configured timeout is passed when the caller gave none,
\* a timeout of the caller is left as it is, and no request goes out without
\* a timeout.
C23_Original ==
  Requesting =>
    /\ ~lib_call.timeout.given
         => lib_result.request.timeout = KwInt(ConfiguredTimeout(lib_call.environ))
    /\ lib_call.timeout.given
         => lib_result.request.timeout = lib_call.timeout
    /\ HasTimeout(lib_result.request)

\* C23: the configured timeout (HTTP_TIMEOUT, 5 when unset) is passed when
\* the caller gave no timeout keyword, a timeout keyword of the caller is left
\* as it is, and a request goes out without a timeout exactly when the caller
\* passed timeout=None itself.
C23_TimeoutDefault ==
  Requesting =>
    /\ ~lib_call.timeout.given
         => lib_result.request.timeout = KwInt(ConfiguredTimeout(lib_call.environ))
    /\ lib_call.timeout.given
         => lib_result.request.timeout = lib_call.timeout
    /\ ~HasTimeout(lib_result.request) <=> lib_call.timeout = KwNone

C23_Witness ==
  /\ Requesting
  /\ ~lib_call.timeout.given
  /\ lib_call.environ.HTTP_TIMEOUT = EnvVar(<<"3","0">>)
  /\ lib_result.request.timeout = KwInt(30)

\* ------------------------------------------------------------------------
\* The probes and the exceptions of the driver

\* HttpDriver.request raised an HttpDriverException
DriverFailed ==
  /\ driver_result.kind = "raise"
  /\ IsInstance(driver_result.exc.cls, "HttpDriverException")

\* C24: an exception the driver raises during get_status leaves get_status
\* with its class and its message unchanged, for each of the three probes; it
\* is neither swallowed nor turned into a domain error or a label.
C24_DriverErrorPropagates ==
  (Called /\ DriverFailed) =>
    /\ service_class \in {"ElasticsearchService", "KibanaService", "LogstashService"}
    /\ status_result.kind = "raise"
    /\ status_result.exc.cls = driver_result.exc.cls
    /\ status_result.exc.msg = driver_result.exc.msg
    /\ status_result.exc.code = driver_result.exc.code

C24_Witness ==
  /\ Called
  /\ service_class = "LogstashService"
  /\ DriverFailed
  /\ driver_result.exc.cls = "HttpStatusError"
  /\ status_result.exc.cls = "HttpStatusError"
  /\ status_result.exc.code = 404

\* ------------------------------------------------------------------------
\* Credentials and the log

\* sub occurs in str as a run of consecutive characters
Contains(str, sub) ==
  /\ Len(sub) > 0
  /\ \E i \in 1..Len(str) :
       i + Len(sub) - 1 <= Len(str) /\ SubSeq(str, i, i + Len(sub) - 1) = sub

\* a log record shows the text in one of its string arguments
Shows(record, text) ==
  \E i \in DOMAIN record.args :
    record.args[i].t = "str" /\ Contains(record.args[i].s, text)

\* C26: no log record emitted during an invocation by a probe, the driver or
\* the orchestrator shows the user name, the password or the base endpoint
\* URL, after a success and after every failure alike.
C26_NoCredentialInLogs ==
  \A i \in DOMAIN logs :
    /\ ~Shows(logs[i], args.user)
    /\ ~Shows(logs[i], args.password)
    /\ ~Shows(logs[i], args.endpoint)

\* ------------------------------------------------------------------------
\* The pass of check_service

\* the imports of the script succeeded and check_service was called
Entered ==
  /\ pc # "idle"
  /\ Config_HTTP_TIMEOUT(environ).ok
  /\ ConfiguredLevel(environ).ok

\* C27: an invocation is one pass without a loop: get_service is called once,
\* then get_status at most once, then check.main at most once and only after
\* get_status returned or raised an error check_service catches; a run that
\* reaches the report carries exactly one severity label and at most one
\* override message.
C27_LinearPass ==
  /\ Entered => steps.get_service = 1
  /\ steps.get_service <= 1
  /\ steps.get_status <= steps.get_service
  /\ steps.main <= steps.get_status
  /\ steps.main = 1 =>
       \/ status_result.kind = "return"
       \/ status_result.kind = "raise" /\ status_result.exc.cls \in DriverErrors
  /\ pc \in {"handled", "exited"} =>
       /\ service_status \in Labels
       /\ custom_description.some => status_result.kind = "raise"

C27_Witness ==
  /\ pc = "exited"
  /\ steps = [get_service |-> 1, get_status |-> 1, main |-> 1]
  /\ status_result.kind = "raise"
  /\ custom_description.some

\* check_service is building the report, or has built it
Reporting == pc \in {"handled", "exited"}

\* C28: when check_service builds the report, the override message is set
\* only if the label is UNKNOWN and an except clause set both; a label that
\* get_status returned, UNKNOWN included, is reported with its default
\* message.
C28_OverrideOnlyFromHandler ==
  Reporting =>
    /\ custom_description.some
         => /\ service_status = LabelUNKNOWN
            /\ status_result.kind = "raise"
            /\ status_result.exc.cls \in DriverErrors
    /\ status_result.kind = "return"
         => /\ ~custom_description.some
            /\ service_status = status_result.label
            /\ pc = "exited" => output.summary = ExpectedDefault(status_result.label)

C28_Witness ==
  /\ pc = "exited"
  /\ status_result.kind = "return"
  /\ status_result.label = LabelUNKNOWN
  /\ ~custom_description.some
  /\ output.summary =
       "Service state is unknown, please check the configuration or logs."

\* the perfdata of the four metric values, written out
PerfOfCodes ==
  { <<"s","e","r","v","i","c","e","_","s","t","a","t","u","s","=","0">>, <<"s","e","r","v","i","c","e","_","s","t","a","t","u","s","=","1">>,
    <<"s","e","r","v","i","c","e","_","s","t","a","t","u","s","=","2">>, <<"s","e","r","v","i","c","e","_","s","t","a","t","u","s","=","3">> }

\* C29: every value get_status returns, and the label the except clauses of
\* check_service assign, is one of OK, WARNING, CRITICAL, UNKNOWN; so
\* ServiceHealthResource.probe never raises InvalidNagiosStateError in the
\* pipeline and the reported metric value is one of 0, 1, 2, 3.
C29_LabelsOnly ==
  /\ (Called /\ status_result.kind = "return") => status_result.label \in Labels
  /\ Reporting => service_status \in Labels
  /\ pc = "exited" =>
       /\ output.printed
       /\ output.summary # "InvalidNagiosStateError"
       /\ output.perf \in PerfOfCodes
       /\ exit_code \in 0..3

C29_Witness ==
  /\ pc = "exited"
  /\ service_class = "LogstashService"
  /\ status_result.kind = "return"
  /\ status_result.label = LabelCRITICAL
  /\ output.perf = <<"s","e","r","v","i","c","e","_","s","t","a","t","u","s","=","2">>

\* the probe class of each value of --check
ChoiceClass(c) ==
  CASE c = "elasticsearch" -> "ElasticsearchService"
    [] c = "kibana"        -> "KibanaService"
    [] c = "logstash"      -> "LogstashService"

\* C30: every value --check accepts resolves through BaseService.get_service
\* to a probe class, the three values to three different classes; so
\* ServiceNotFoundError never ends check_service.
C30_ChoicesResolve ==
  Entered =>
    /\ check \in CheckChoices
    /\ steps.get_service = 1
    /\ service_class = ChoiceClass(check)
    /\ \A c \in CheckChoices : c # check => ChoiceClass(c) # service_class
    /\ pc = "crashed" => steps.get_status = 1

C30_Witness ==
  /\ pc = "resolved"
  /\ check = "kibana"
  /\ service_class = "KibanaService"
  /\ steps.get_service = 1
  /\ steps.get_status = 0

====
